---------------------------- MODULE Spec2Model ----------------------------
(***************************************************************************)
(* ReplayEngine (js/replay-core.js): the virtual race clock, the position  *)
(* and event cursors, the per-runner ScoringState, the score evaluator and *)
(* the observer callbacks, driven by play/pause/toggle/setSpeed/seek and   *)
(* by the host's requestAnimationFrame scheduler.                          *)
(*                                                                         *)
(* Times are whole seconds.  A JSON value that is absent (null/undefined)  *)
(* is NULL.  Values whose JavaScript type matters to an observer           *)
(* (hasStarted, hasFinished, elapsedTime) are tagged pairs <<tag, n>>.     *)
(***************************************************************************)
EXTENDS Integers, Sequences, FiniteSets, TLC

\* ------------------------------------------------------------------ bounds
MaxTime == 3         \* latest endTime of a loaded race
MaxFrames == 2       \* most position frames in a loaded race
MaxDelta == 2        \* largest wall-clock gap (s) between two animation frames
MaxSpeed == 2        \* largest speed multiplier set through setSpeed
MaxChains == 2       \* most animation frames pending with the host at once
MaxReentries == 1    \* most calls an observer makes into the engine during one tick
MaxSamples == 4      \* most position samples of one runner
MaxTrail == 2        \* largest maxTrailLength option given to a map
MaxFed == 3          \* most points one runner's trail is fed between two clears

\* ------------------------------------------------------- JavaScript values
NULL == -1

JSNull == <<"null", 0>>
Num(n) == <<"num", n>>
\* the value of a number-or-null field
Field(n) == IF n = NULL THEN JSNull ELSE Num(n)
JSBool(b) == <<"bool", IF b THEN 1 ELSE 0>>

\* ToBoolean on a number-or-null field: null, undefined and 0 are falsy
Truthy(n) == n # NULL /\ n # 0

\* ToBoolean on a tagged value
TruthyVal(v) == \/ v[1] = "bool" /\ v[2] = 1
                \/ v[1] = "num" /\ v[2] # 0

\* a && b, where a is a number-or-null field and b a comparison result
JSAnd(a, b) == IF Truthy(a) THEN JSBool(b) ELSE Field(a)

\* a || b on number-or-null fields
JSOr(a, b) == IF Truthy(a) THEN a ELSE b

Max(a, b) == IF a >= b THEN a ELSE b
Min(a, b) == IF a <= b THEN a ELSE b
Abs(n) == IF n < 0 THEN -n ELSE n

RECURSIVE GCD(_, _)
GCD(a, b) == IF b = 0 THEN a ELSE GCD(b, a % b)

\* an exact quotient n/d (d > 0) in lowest terms: a JavaScript number that
\* need not be whole
Ratio(n, d) == LET g == GCD(Abs(n), d) IN
               IF g = 0 THEN <<0, 1>> ELSE <<n \div g, d \div g>>

EmptyMap == [k \in {} |-> 0]
MapPut(m, key, v) == [k \in DOMAIN m \cup {key} |-> IF k = key THEN v ELSE m[k]]

RECURSIVE SortedSeq(_)
\* the members of a set of integers in ascending order (the key order of a
\* JavaScript object with integer-like keys)
SortedSeq(S) == IF S = {} THEN <<>>
                ELSE LET m == CHOOSE x \in S : \A y \in S : x <= y
                     IN <<m>> \o SortedSeq(S \ {m})

\* ------------------------------------------------------------- race data
\* What loadData fetches: positions.json, runners.json, scoring.json and
\* metadata.json.  A race is drawn from bounded sets; the frames of
\* positions.json are time-ascending, as the exporter writes them.

Pos(r, lat, lon) == [r |-> r, lat |-> lat, lon |-> lon]

\* frame payloads: the i-th frame of a file
FramePayload(i) == IF i % 2 = 1 THEN <<Pos(1, 0, 0), Pos(2, 4, 2)>>
                   ELSE <<Pos(1, 10, 10)>>

\* frame times, among them one after every endTime
FrameTimes == {t \in 0..(MaxTime + 1) : t % 2 = 0 \/ t = MaxTime + 1}

PositionsChoices ==
    {[i \in 1..n |-> [t |-> ts[i], p |-> FramePayload(i)]] :
        <<n, ts>> \in {nt \in UNION {{n} \X [1..n -> FrameTimes] : n \in 0..MaxFrames} :
                         \A i \in 1..(nt[1] - 1) : nt[2][i] <= nt[2][i + 1]}}

DefaultPositions ==
    <<[t |-> 0, p |-> FramePayload(1)], [t |-> 2, p |-> FramePayload(2)]>>

\* a positions.json that follows one runner: up to MaxSamples frames, time-
\* ascending (equal timestamps included), every sample at its own coordinates
SamplePayload(i) == <<Pos(1, i * i, 10 - 2 * i)>>

SamplePositions ==
    {[i \in 1..n |-> [t |-> ts[i], p |-> SamplePayload(i)]] :
        <<n, ts>> \in {nt \in UNION {{n} \X [1..n -> 0..MaxTime] : n \in 0..MaxSamples} :
                         \A i \in 1..(nt[1] - 1) : nt[2][i] <= nt[2][i + 1]}}

Window(enter, exit) == [enter |-> enter, exit |-> exit]

\* stage_timestamps objects: none, one closed window, one window never left,
\* two windows one after the other, two windows that overlap
StageChoices ==
    { EmptyMap,
      1 :> Window(1, 2),
      1 :> Window(2, NULL),
      (1 :> Window(1, 2)) @@ (2 :> Window(2, 3)),
      (1 :> Window(1, 3)) @@ (2 :> Window(1, 3)) }

ScoringRecord(r, es, ef, st) ==
    [runner_id |-> r, exited_start |-> es, enter_finish |-> ef,
     total_run_time |-> IF ef = NULL THEN NULL ELSE 7,
     total_stages |-> IF st = EmptyMap THEN NULL ELSE 2,
     stage_timestamps |-> st]

Runner1Records ==
    {ScoringRecord(1, es, ef, st) :
        es \in {NULL, 0, 1}, ef \in {NULL, MaxTime - 1}, st \in StageChoices}

Runner2Record == ScoringRecord(2, 1, NULL, 1 :> Window(2, 3))

ScoringChoices == {<<>>} \cup {<<s>> : s \in Runner1Records}

DefaultScoring == <<ScoringRecord(1, 1, MaxTime - 1, 1 :> Window(1, 2)), Runner2Record>>

\* metadata.json: [startTime, endTime]
Windows == {<<0, MaxTime>>, <<1, MaxTime>>, <<1, 1>>}

\* runners.json
RunnerList == <<1, 2>>

Race(ps, sc, w) ==
    [positions |-> ps, runners |-> RunnerList, scoring |-> sc,
     metadata |-> [startTime |-> w[1], endTime |-> w[2], totalStages |-> NULL],
     stageGeofences |-> 2]

SampleRaces == {Race(ps, <<>>, <<0, MaxTime>>) : ps \in SamplePositions}

DefaultRaces == {Race(DefaultPositions, DefaultScoring, w) : w \in Windows}

Races == {Race(ps, DefaultScoring, w) : ps \in PositionsChoices, w \in Windows}
         \cup {Race(DefaultPositions, sc, w) : sc \in ScoringChoices, w \in Windows}

\* ------------------------------------------------------------ engine state
VARIABLES
    positions,          \* this.positions: time-ascending frames [t, p]
    runners,            \* this.runners: the runner ids, in file order
    scoring,            \* this.scoring: the scoring records
    events,             \* this.events: the sorted timeline
    totalStages,        \* this.totalStages: the race-level stage count
    startTime, endTime, \* this.startTime, this.endTime
    currentTime,        \* this.currentTime
    currentIndex,       \* this.currentIndex: frames applied so far
    currentEventIndex,  \* this.currentEventIndex: events applied so far
    runnerPositions,    \* this.runnerPositions: runner id -> latest sample
    scoringState,       \* this.scoringState: runner id -> progress tracker
    isPlaying,          \* this.isPlaying
    playbackSpeed,      \* this.playbackSpeed
    sinceLastTick,      \* performance.now() - this.lastTickTime, in seconds
    animationFrameId,   \* this.animationFrameId: a frame handle, or NULL
    scheduled,          \* the host's pending requestAnimationFrame handles
    pc,                 \* where the _tick in flight stands: the callback it calls next
    newEvents,          \* _updateToCurrentTime's newEvents still to be passed to onEvent
    tickPlaying,        \* the stillPlaying argument the _tick in flight passes on
    calls,              \* the observer callbacks fired by the operation in flight or last
                        \* run, and the calls the observer made back from inside them
    lastOp,             \* the last engine method called from outside, with its argument
                        \* (for play: the wall time since lastTickTime when it was called)
    jump,               \* "back"/"ahead" when that was a seek right after a seek to a later/earlier time
    updated,            \* a tick or a seek has run since the load
    reentered,          \* calls the observer made into the engine from callbacks of the tick in flight
    runEnds,            \* onTimeChange(.., false) calls since the last play() that started a run
    logging,            \* the observer keeps a log of what it is passed (the three fields below)
    delivered,          \* the events passed to onEvent since the last load or seek, in order
    seekBase,           \* this.currentEventIndex as the last seek left it; NULL before any seek
    deliveredBefore,    \* the events that had been passed to onEvent when the last seek was made
    trail,              \* this.trail: the trail file, or null
    loadOutcome         \* how the last loadData ended: the resources that failed, resolved or
                        \* rejected, and the error the caller got

VARIABLES
    maxTrailLength,     \* ReplayMap: this.options.maxTrailLength
    selectedRunners,    \* ReplayMap: this.selectedRunners
    markers,            \* ReplayMap: this.markers, runner id -> the marker's place and visibility
    trails,             \* ReplayMap: this.trails, runner id -> the polyline's points and visibility
    trailPoints,        \* ReplayMap: this.trailPoints, runner id -> the stored trail
    trailFed            \* the points _updateTrail was passed per runner since the trails were
                        \* last cleared, in order

mapVars == <<maxTrailLength, selectedRunners, markers, trails, trailPoints, trailFed>>

raceVars == <<positions, runners, scoring, events, totalStages, startTime, endTime>>
engineVars == <<currentTime, currentIndex, currentEventIndex, runnerPositions, scoringState,
                isPlaying, playbackSpeed, sinceLastTick, animationFrameId, scheduled,
                pc, newEvents, tickPlaying, calls, lastOp, jump, updated, reentered, runEnds,
                logging, delivered, seekBase, deliveredBefore>>
loadVars == <<trail, loadOutcome>>
vars == <<raceVars, engineVars, loadVars, mapVars>>

\* --------------------------------------------------------- event timeline
Event(t, r, label, type, stage) ==
    [t |-> t, r |-> r, label |-> label, type |-> type, stage |-> stage]

RECURSIVE StageEvents(_, _, _)
\* the forEach over Object.entries(s.stage_timestamps): per stage, in key
\* order, the enter event and then the exit event
StageEvents(r, st, stages) ==
    IF stages = <<>> THEN <<>>
    ELSE LET n == Head(stages)
             times == st[n]
         IN (IF Truthy(times.enter)
             THEN <<Event(times.enter, r, <<"Stage", n>>, "enter_stage", n)>> ELSE <<>>)
            \o (IF Truthy(times.exit)
                THEN <<Event(times.exit, r, <<"Exit S", n>>, "exit_stage", n)>> ELSE <<>>)
            \o StageEvents(r, st, Tail(stages))

RecordEvents(s) ==
    (IF Truthy(s.exited_start)
     THEN <<Event(s.exited_start, s.runner_id, <<"Start!", 0>>, "exit_start", NULL)>>
     ELSE <<>>)
    \o StageEvents(s.runner_id, s.stage_timestamps, SortedSeq(DOMAIN s.stage_timestamps))
    \o (IF Truthy(s.enter_finish)
        THEN <<Event(s.enter_finish, s.runner_id, <<"Finish!", 0>>, "enter_finish", NULL)>>
        ELSE <<>>)

RECURSIVE _generateEventsFromScoring(_)
_generateEventsFromScoring(sc) ==
    IF sc = <<>> THEN <<>>
    ELSE RecordEvents(Head(sc)) \o _generateEventsFromScoring(Tail(sc))

RECURSIVE InsertByTimeFirst(_, _)
\* (mutant) e placed before the events of its own time
InsertByTimeFirst(e, sorted) ==
    IF sorted = <<>> THEN <<e>>
    ELSE IF Head(sorted).t < e.t THEN <<Head(sorted)>> \o InsertByTimeFirst(e, Tail(sorted))
    ELSE <<e>> \o sorted

RECURSIVE InsertByTime(_, _)
\* e placed after every event of the sorted sequence whose time is <= e.t
InsertByTime(e, sorted) ==
    IF sorted = <<>> THEN <<e>>
    ELSE IF Head(sorted).t <= e.t THEN <<Head(sorted)>> \o InsertByTime(e, Tail(sorted))
    ELSE <<e>> \o sorted

RECURSIVE SortByTime(_, _)
\* Array.prototype.sort((a, b) => a.t - b.t): ascending by t, and stable
SortByTime(evs, sorted) ==
    IF evs = <<>> THEN sorted
    ELSE SortByTime(Tail(evs), InsertByTime(Head(evs), sorted))

\* ----------------------------------------------------------- ScoringState
EmptyState == [hasStarted |-> FALSE, hasFinished |-> FALSE,
               stagesEntered |-> {}, stagesExited |-> {}]

RunnerIds(rs) == {rs[i] : i \in DOMAIN rs}

\* (mutant) the reset leaves every runner started
_resetScoringStateStarted(rs) ==
    [r \in RunnerIds(rs) |-> [EmptyState EXCEPT !.hasStarted = TRUE]]

_resetScoringState(rs) == [r \in RunnerIds(rs) |-> EmptyState]

_processEvent(ss, event) ==
    IF event.r \notin DOMAIN ss THEN ss
    ELSE IF event.type = "exit_start"
         THEN [ss EXCEPT ![event.r].hasStarted = TRUE]
    ELSE IF event.type = "enter_finish"
         THEN [ss EXCEPT ![event.r].hasFinished = TRUE]
    ELSE IF event.type = "enter_stage"
         THEN [ss EXCEPT ![event.r].stagesEntered = @ \cup {event.stage}]
    ELSE IF event.type = "exit_stage"
         THEN [ss EXCEPT ![event.r].stagesExited = @ \cup {event.stage}]
    ELSE ss

\* ---------------------------------------------------------------- cursors
RECURSIVE ApplyFrame(_, _, _)
\* for (const pos of frame.p) this.runnerPositions[pos.r] = {...pos, timestamp: frame.t}
ApplyFrame(rp, t, p) ==
    IF p = <<>> THEN rp
    ELSE ApplyFrame(MapPut(rp, Head(p).r,
                           [r |-> Head(p).r, lat |-> Head(p).lat,
                            lon |-> Head(p).lon, timestamp |-> t]),
                    t, Tail(p))

RECURSIVE AdvanceFrames(_, _, _)
\* the loop over position frames: from cursor idx, apply every frame with
\* t <= time, stopping at the first later one
AdvanceFrames(idx, rp, time) ==
    IF idx < Len(positions) /\ positions[idx + 1].t <= time
    THEN AdvanceFrames(idx + 1, ApplyFrame(rp, positions[idx + 1].t, positions[idx + 1].p), time)
    ELSE [index |-> idx, runnerPositions |-> rp]

RECURSIVE AdvanceEventsLast(_, _, _, _)
\* (mutant) newEvents keeps only the last event crossed
AdvanceEventsLast(idx, ss, time, crossed) ==
    IF idx < Len(events) /\ events[idx + 1].t <= time
    THEN AdvanceEventsLast(idx + 1, _processEvent(ss, events[idx + 1]), time,
                           <<events[idx + 1]>>)
    ELSE [index |-> idx, scoringState |-> ss, newEvents |-> crossed]

RECURSIVE AdvanceEvents(_, _, _, _)
\* the loop over events: from cursor idx, process every event with
\* t <= time, collecting the crossed events
AdvanceEvents(idx, ss, time, crossed) ==
    IF idx < Len(events) /\ events[idx + 1].t <= time
    THEN AdvanceEvents(idx + 1, _processEvent(ss, events[idx + 1]), time,
                       Append(crossed, events[idx + 1]))
    ELSE [index |-> idx, scoringState |-> ss, newEvents |-> crossed]

Cursors(f, e) ==
    [currentIndex |-> f.index, runnerPositions |-> f.runnerPositions,
     currentEventIndex |-> e.index, scoringState |-> e.scoringState,
     newEvents |-> e.newEvents]

\* (mutant) both loops stop at a frame or event whose time equals the clock
UpdateCursorsStrict(this, time) ==
    Cursors(AdvanceFrames(this.currentIndex, this.runnerPositions, time - 1),
            AdvanceEvents(this.currentEventIndex, this.scoringState, time - 1, <<>>))

\* the cursor part of _updateToCurrentTime on engine this: both loops
\* continue from the cursors where the previous update left them
UpdateCursors(this, time) ==
    Cursors(AdvanceFrames(this.currentIndex, this.runnerPositions, time),
            AdvanceEvents(this.currentEventIndex, this.scoringState, time, <<>>))

\* (mutant) the cursors and runnerPositions are not reset before the loops run
_rebuildStateAtTimeNoReset(this, timestamp) ==
    Cursors(AdvanceFrames(this.currentIndex, this.runnerPositions, timestamp),
            AdvanceEvents(this.currentEventIndex, _resetScoringState(runners), timestamp, <<>>))

\* _rebuildStateAtTime on engine this: runnerPositions, both cursors and the
\* ScoringState are reset, then both loops run from index 0
_rebuildStateAtTime(this, timestamp) ==
    Cursors(AdvanceFrames(0, EmptyMap, timestamp),
            AdvanceEvents(0, _resetScoringState(runners), timestamp, <<>>))

\* ----------------------------------------------------------------- scores
RECURSIVE ScoringLookup(_, _, _)
\* this.scoringMap[r]: the last record of the file for runner r, or NULL
ScoringLookup(sc, r, found) ==
    IF sc = <<>> THEN found
    ELSE ScoringLookup(Tail(sc), r, IF Head(sc).runner_id = r THEN Head(sc) ELSE found)

HasRecord(r) == \E i \in DOMAIN scoring : scoring[i].runner_id = r

RECURSIVE StageTotals(_, _, _, _)
\* the forEach over the stage windows: [stagesCompleted, stageDwellTime]
StageTotals(st, stages, time, acc) ==
    IF stages = <<>> THEN acc
    ELSE LET times == st[Head(stages)]
             next == IF Truthy(times.enter) /\ Truthy(times.exit)
                     THEN IF time >= times.exit
                          THEN [stagesCompleted |-> acc.stagesCompleted + 1,
                                stageDwellTime |-> acc.stageDwellTime + (times.exit - times.enter)]
                          ELSE IF time >= times.enter
                          THEN [acc EXCEPT !.stageDwellTime = @ + (time - times.enter)]
                          ELSE acc
                     ELSE acc
         IN StageTotals(st, Tail(stages), time, next)

StartedAt(s, time) == JSAnd(s.exited_start, time >= s.exited_start)
FinishedAt(s, time) == JSAnd(s.enter_finish, time >= s.enter_finish)

\* (mutant) a runner without a scoring record is reported as started
UnscoredStarted(runner) ==
    [runner |-> runner, stages |-> 0, totalStages |-> totalStages,
     hasStarted |-> JSBool(TRUE), hasFinished |-> JSBool(FALSE),
     elapsedTime |-> JSNull]

\* the snapshot getScores returns when (!scoringData)
Unscored(runner) ==
    [runner |-> runner, stages |-> 0, totalStages |-> totalStages,
     hasStarted |-> JSBool(FALSE), hasFinished |-> JSBool(FALSE),
     elapsedTime |-> JSNull]

\* the snapshot getScores computes from scoring record s
RecordScore(runner, s, time) ==
    LET hasStarted == StartedAt(s, time)
        hasFinished == FinishedAt(s, time)
        tot == StageTotals(s.stage_timestamps, SortedSeq(DOMAIN s.stage_timestamps), time,
                           [stagesCompleted |-> 0, stageDwellTime |-> 0])
        elapsedTime == IF TruthyVal(hasStarted)
                       THEN IF TruthyVal(hasFinished)
                            THEN Field(s.total_run_time)
                            ELSE Num((time - s.exited_start) - tot.stageDwellTime)
                       ELSE JSNull
    IN [runner |-> runner, stages |-> tot.stagesCompleted,
        totalStages |-> JSOr(s.total_stages, totalStages),
        hasStarted |-> hasStarted, hasFinished |-> hasFinished,
        elapsedTime |-> elapsedTime]

Score(runner, time) ==
    IF ~HasRecord(runner) THEN Unscored(runner)
    ELSE RecordScore(runner, ScoringLookup(scoring, runner, NULL), time)

\* (mutant) only the runners that have a scoring record get a snapshot
getScoresScored(time) ==
    LET all == [i \in DOMAIN runners |-> Score(runners[i], time)]
    IN SelectSeq(all, LAMBDA score : HasRecord(score.runner))

\* getScores() when this.currentTime = time
getScores(time) == [i \in DOMAIN runners |-> Score(runners[i], time)]

\* -------------------------------------------------------------- positions
RECURSIVE FrameSamples(_, _, _)
FrameSamples(r, t, p) ==
    IF p = <<>> THEN <<>>
    ELSE (IF Head(p).r = r THEN <<[t |-> t, lat |-> Head(p).lat, lon |-> Head(p).lon]>> ELSE <<>>)
         \o FrameSamples(r, t, Tail(p))

RECURSIVE History(_, _)
\* this.positionHistory[r]: runner r's samples, in frame order
History(r, frames) ==
    IF frames = <<>> THEN <<>>
    ELSE FrameSamples(r, Head(frames).t, Head(frames).p) \o History(r, Tail(frames))

\* Object.keys(this.positionHistory): every runner id a frame mentions
HistoryKeys == UNION {{positions[i].p[j].r : j \in DOMAIN positions[i].p} : i \in DOMAIN positions}

\* (mutant) no search: the first and the last sample are taken as the bracket
BracketEnds(history, time, lo, hi) == <<lo, hi>>

RECURSIVE Bracket(_, _, _, _)
\* the binary search: while (lo < hi - 1), on 1-based indices
Bracket(history, time, lo, hi) ==
    IF lo < hi - 1
    THEN LET mid == (lo + hi) \div 2
         IN IF history[mid].t <= time THEN Bracket(history, time, mid, hi)
            ELSE Bracket(history, time, lo, mid)
    ELSE <<lo, hi>>

\* _interpolatePosition's null
NoPosition == [none |-> TRUE]

\* (mutant) before the first sample the first sample's coordinates are returned
_interpolatePositionClamped(history, time) ==
    IF history = <<>> THEN NoPosition
    ELSE IF time >= history[Len(history)].t
         THEN [lat |-> Ratio(history[Len(history)].lat, 1),
               lon |-> Ratio(history[Len(history)].lon, 1)]
    ELSE [lat |-> Ratio(history[1].lat, 1), lon |-> Ratio(history[1].lon, 1)]

\* a position [lat, lon], each an exact quotient, or NoPosition
_interpolatePosition(history, time) ==
    IF history = <<>> THEN NoPosition
    ELSE IF time < history[1].t THEN NoPosition
    ELSE IF time >= history[Len(history)].t
         THEN [lat |-> Ratio(history[Len(history)].lat, 1),
               lon |-> Ratio(history[Len(history)].lon, 1)]
    ELSE LET b == Bracket(history, time, 1, Len(history))
             p1 == history[b[1]]
             p2 == history[b[2]]
             dt == p2.t - p1.t
         IN IF dt = 0 THEN [lat |-> Ratio(p1.lat, 1), lon |-> Ratio(p1.lon, 1)]
            ELSE [lat |-> Ratio(p1.lat * dt + (p2.lat - p1.lat) * (time - p1.t), dt),
                  lon |-> Ratio(p1.lon * dt + (p2.lon - p1.lon) * (time - p1.t), dt)]

RECURSIVE PositionsOf(_, _)
PositionsOf(keys, time) ==
    IF keys = <<>> THEN <<>>
    ELSE LET r == Head(keys)
             interpolated == _interpolatePosition(History(r, positions), time)
         IN (IF interpolated = NoPosition THEN <<>>
             ELSE <<[r |-> r, lat |-> interpolated.lat, lon |-> interpolated.lon,
                     runner |-> IF r \in RunnerIds(runners) THEN r ELSE NULL]>>)
            \o PositionsOf(Tail(keys), time)

\* getCurrentPositions() when this.currentTime = time
getCurrentPositions(time) == PositionsOf(SortedSeq(HistoryKeys), time)

\* getProgress() when this.currentTime = time
getProgress(time) ==
    LET duration == endTime - startTime
    IN IF duration = 0 THEN Ratio(0, 1) ELSE Ratio(time - startTime, duration)

\* ------------------------------------------------------ observer callbacks
OnEvent(event) == [cb |-> "onEvent", event |-> event]
OnScoreUpdate(time) == [cb |-> "onScoreUpdate", scores |-> getScores(time)]
OnUpdate(time) == [cb |-> "onUpdate", positions |-> getCurrentPositions(time), time |-> time]
OnTimeChange(time, playing) ==
    [cb |-> "onTimeChange", time |-> time, progress |-> getProgress(time), playing |-> playing]

\* ------------------------------------------------------------- the engine
\* The engine object.  Every method is an operator from the engine before
\* the call to the engine after it.
engine ==
    [currentTime |-> currentTime, currentIndex |-> currentIndex,
     currentEventIndex |-> currentEventIndex, runnerPositions |-> runnerPositions,
     scoringState |-> scoringState, isPlaying |-> isPlaying,
     playbackSpeed |-> playbackSpeed, sinceLastTick |-> sinceLastTick,
     animationFrameId |-> animationFrameId, scheduled |-> scheduled,
     pc |-> pc, newEvents |-> newEvents, tickPlaying |-> tickPlaying,
     calls |-> calls, lastOp |-> lastOp, jump |-> jump,
     updated |-> updated, reentered |-> reentered, runEnds |-> runEnds,
     logging |-> logging, delivered |-> delivered, seekBase |-> seekBase,
     deliveredBefore |-> deliveredBefore]

\* the engine after the constructor and loadData
Loaded ==
    [currentTime |-> startTime, currentIndex |-> 0,
     currentEventIndex |-> 0, runnerPositions |-> EmptyMap,
     scoringState |-> _resetScoringState(runners), isPlaying |-> FALSE,
     playbackSpeed |-> 1, sinceLastTick |-> 0,
     animationFrameId |-> NULL, scheduled |-> {},
     pc |-> "idle", newEvents |-> <<>>, tickPlaying |-> FALSE,
     calls |-> <<>>, lastOp |-> <<"loadData", 0>>, jump |-> "none",
     updated |-> FALSE, reentered |-> 0, runEnds |-> 0,
     logging |-> FALSE, delivered |-> <<>>, seekBase |-> NULL, deliveredBefore |-> {}]

WithCursors(this, cur) ==
    [this EXCEPT !.currentIndex = cur.currentIndex,
                 !.runnerPositions = cur.runnerPositions,
                 !.currentEventIndex = cur.currentEventIndex,
                 !.scoringState = cur.scoringState]

\* requestAnimationFrame(() => this._tick()): a handle no pending frame has.
\* Handles are opaque to the engine; it keeps the newest and only ever
\* passes it to cancelAnimationFrame.
NewHandle(this) ==
    CHOOSE id \in 1..(Cardinality(this.scheduled) + 2) :
        /\ id \notin this.scheduled \cup {this.animationFrameId}
        /\ \A j \in 1..(id - 1) : j \in this.scheduled \cup {this.animationFrameId}

requestAnimationFrame(this) ==
    LET id == NewHandle(this)
    IN [this EXCEPT !.animationFrameId = id, !.scheduled = @ \cup {id}]

\* (mutant) the end check is missing: the clock is clamped and playback goes on
TickBeginNoEnd(this) ==
    IF ~this.isPlaying THEN this
    ELSE LET advanced == this.currentTime + this.sinceLastTick * this.playbackSpeed
             time == IF advanced >= endTime THEN endTime ELSE advanced
             cur == UpdateCursors(this, time)
         IN [WithCursors(this, cur) EXCEPT
                !.sinceLastTick = 0,
                !.currentTime = time,
                !.tickPlaying = TRUE,
                !.newEvents = cur.newEvents,
                !.updated = TRUE,
                !.pc = IF cur.newEvents # <<>> THEN "onEvent" ELSE "onScoreUpdate"]

\* the start of _tick, up to its first callback: the clock advance, the end
\* check, and the two cursor loops of _updateToCurrentTime
TickBegin(this) ==
    IF ~this.isPlaying THEN this
    ELSE LET advanced == this.currentTime + this.sinceLastTick * this.playbackSpeed
             atEnd == advanced >= endTime
             time == IF atEnd THEN endTime ELSE advanced
             cur == UpdateCursors(this, time)
         IN [WithCursors(this, cur) EXCEPT
                !.sinceLastTick = 0,
                !.currentTime = time,
                !.isPlaying = ~atEnd,
                !.tickPlaying = ~atEnd,
                !.newEvents = cur.newEvents,
                !.updated = TRUE,
                !.pc = IF cur.newEvents # <<>> THEN "onEvent" ELSE "onScoreUpdate"]

\* (mutant) onUpdate is fired before onScoreUpdate, as in seekToTime
FireUpdateFirst(this) ==
    IF this.pc = "onEvent"
    THEN [this EXCEPT !.calls = Append(@, OnEvent(Head(this.newEvents))),
                      !.delivered = IF this.logging THEN Append(@, Head(this.newEvents)) ELSE @,
                      !.newEvents = Tail(@)]
    ELSE IF this.pc = "onScoreUpdate"
    THEN [this EXCEPT !.calls = Append(@, OnUpdate(this.currentTime))]
    ELSE IF this.pc = "onUpdate"
    THEN [this EXCEPT !.calls = Append(@, OnScoreUpdate(this.currentTime))]
    ELSE [this EXCEPT !.calls = Append(@, OnTimeChange(this.currentTime, this.tickPlaying)),
                      !.runEnds = IF this.tickPlaying THEN @ ELSE @ + 1]

\* the callback the _tick in flight calls at this.pc
Fire(this) ==
    IF this.pc = "onEvent"
    THEN [this EXCEPT !.calls = Append(@, OnEvent(Head(this.newEvents))),
                      !.delivered = IF this.logging THEN Append(@, Head(this.newEvents)) ELSE @,
                      !.newEvents = Tail(@)]
    ELSE IF this.pc = "onScoreUpdate"
    THEN [this EXCEPT !.calls = Append(@, OnScoreUpdate(this.currentTime))]
    ELSE IF this.pc = "onUpdate"
    THEN [this EXCEPT !.calls = Append(@, OnUpdate(this.currentTime))]
    ELSE [this EXCEPT !.calls = Append(@, OnTimeChange(this.currentTime, this.tickPlaying)),
                      !.runEnds = IF this.tickPlaying THEN @ ELSE @ + 1]

\* (mutant) the next frame is requested after the end branch too
ResumeAlwaysSchedules(this) ==
    IF this.pc = "onEvent"
    THEN [this EXCEPT !.pc = IF this.newEvents # <<>> THEN "onEvent" ELSE "onScoreUpdate"]
    ELSE IF this.pc = "onScoreUpdate" THEN [this EXCEPT !.pc = "onUpdate"]
    ELSE IF this.pc = "onUpdate" THEN [this EXCEPT !.pc = "onTimeChange"]
    ELSE [requestAnimationFrame(this) EXCEPT !.pc = "idle"]

\* _tick after the callback at this.pc has returned: on to the next
\* callback, and after onTimeChange the next frame is requested unless this
\* tick took the end branch
Resume(this) ==
    IF this.pc = "onEvent"
    THEN [this EXCEPT !.pc = IF this.newEvents # <<>> THEN "onEvent" ELSE "onScoreUpdate"]
    ELSE IF this.pc = "onScoreUpdate" THEN [this EXCEPT !.pc = "onUpdate"]
    ELSE IF this.pc = "onUpdate" THEN [this EXCEPT !.pc = "onTimeChange"]
    ELSE IF this.tickPlaying THEN [requestAnimationFrame(this) EXCEPT !.pc = "idle"]
    ELSE [this EXCEPT !.pc = "idle"]

\* (mutant) the guard on isPlaying is missing
playUnguarded(this) ==
    TickBegin([this EXCEPT !.isPlaying = TRUE, !.sinceLastTick = 0, !.runEnds = 0])

\* (mutant) lastTickTime is not reset: the first tick counts from the last one
playKeepsLastTick(this) ==
    IF this.isPlaying THEN this
    ELSE TickBegin([this EXCEPT !.isPlaying = TRUE, !.runEnds = 0])

play(this) ==
    IF this.isPlaying THEN this
    ELSE TickBegin([this EXCEPT !.isPlaying = TRUE, !.sinceLastTick = 0, !.runEnds = 0])

\* (mutant) the pending frame is left with the host
pauseKeepsFrame(this) == [this EXCEPT !.isPlaying = FALSE]

pause(this) ==
    IF Truthy(this.animationFrameId)
    THEN [this EXCEPT !.isPlaying = FALSE,
                      !.scheduled = @ \ {this.animationFrameId},
                      !.animationFrameId = NULL]
    ELSE [this EXCEPT !.isPlaying = FALSE]

toggle(this) == IF this.isPlaying THEN pause(this) ELSE play(this)

\* the value toggle() returns: this.isPlaying once pause() or play(), with
\* its first tick, has returned
toggleResult(this) == toggle(this).isPlaying

\* (mutant) the time already advanced is rescaled by the new multiplier
setSpeedRescaling(this, speed) ==
    [this EXCEPT !.playbackSpeed = speed,
                 !.currentTime = Min(endTime, startTime + (@ - startTime) * speed)]

setSpeed(this, speed) == [this EXCEPT !.playbackSpeed = speed]

\* (mutant) the upper clamp is missing
ClampBelowOnly(timestamp) == Max(startTime, timestamp)

\* Math.max(this.startTime, Math.min(this.endTime, timestamp))
Clamp(timestamp) == Max(startTime, Min(endTime, timestamp))

\* (mutant) a seek pauses playback
seekToTimePausing(this, timestamp) ==
    LET time == Clamp(timestamp)
        cur == _rebuildStateAtTime(this, time)
    IN [WithCursors(this, cur) EXCEPT
           !.currentTime = time,
           !.updated = TRUE,
           !.isPlaying = FALSE,
           !.calls = @ \o <<OnUpdate(time), OnScoreUpdate(time)>>,
           !.deliveredBefore = @ \cup {this.delivered[i] : i \in DOMAIN this.delivered},
           !.delivered = <<>>,
           !.seekBase = IF this.logging THEN cur.currentEventIndex ELSE @]

\* (mutant) the events the rebuild crosses are passed to onEvent
seekToTimeDelivering(this, timestamp) ==
    LET time == Clamp(timestamp)
        cur == _rebuildStateAtTime(this, time)
    IN [WithCursors(this, cur) EXCEPT
           !.currentTime = time,
           !.updated = TRUE,
           !.calls = @ \o [i \in DOMAIN cur.newEvents |-> OnEvent(cur.newEvents[i])]
                       \o <<OnUpdate(time), OnScoreUpdate(time)>>,
           !.deliveredBefore = @ \cup {this.delivered[i] : i \in DOMAIN this.delivered},
           !.delivered = cur.newEvents,
           !.seekBase = IF this.logging THEN cur.currentEventIndex ELSE @]

seekToTime(this, timestamp) ==
    LET time == Clamp(timestamp)
        cur == _rebuildStateAtTime(this, time)
    IN [WithCursors(this, cur) EXCEPT
           !.currentTime = time,
           !.updated = TRUE,
           !.calls = @ \o <<OnUpdate(time), OnScoreUpdate(time)>>,
           !.deliveredBefore = @ \cup {this.delivered[i] : i \in DOMAIN this.delivered},
           !.delivered = <<>>,
           !.seekBase = IF this.logging THEN cur.currentEventIndex ELSE @]

\* the slider's range: it passes value / 1000 to seekToPercent
SliderMax == 1000

\* seekToPercent(value / SliderMax)
seekToPercent(this, value) ==
    seekToTime(this, startTime + ((endTime - startTime) * value) \div SliderMax)

\* ------------------------------------------------------------ transitions
Holds(this) ==
    /\ currentTime = this.currentTime
    /\ currentIndex = this.currentIndex
    /\ currentEventIndex = this.currentEventIndex
    /\ runnerPositions = this.runnerPositions
    /\ scoringState = this.scoringState
    /\ isPlaying = this.isPlaying
    /\ playbackSpeed = this.playbackSpeed
    /\ sinceLastTick = this.sinceLastTick
    /\ animationFrameId = this.animationFrameId
    /\ scheduled = this.scheduled
    /\ pc = this.pc
    /\ newEvents = this.newEvents
    /\ tickPlaying = this.tickPlaying
    /\ calls = this.calls
    /\ lastOp = this.lastOp
    /\ jump = this.jump
    /\ updated = this.updated
    /\ reentered = this.reentered
    /\ runEnds = this.runEnds
    /\ logging = this.logging
    /\ delivered = this.delivered
    /\ seekBase = this.seekBase
    /\ deliveredBefore = this.deliveredBefore

Assign(this) ==
    /\ currentTime' = this.currentTime
    /\ currentIndex' = this.currentIndex
    /\ currentEventIndex' = this.currentEventIndex
    /\ runnerPositions' = this.runnerPositions
    /\ scoringState' = this.scoringState
    /\ isPlaying' = this.isPlaying
    /\ playbackSpeed' = this.playbackSpeed
    /\ sinceLastTick' = this.sinceLastTick
    /\ animationFrameId' = this.animationFrameId
    /\ scheduled' = this.scheduled
    /\ pc' = this.pc
    /\ newEvents' = this.newEvents
    /\ tickPlaying' = this.tickPlaying
    /\ calls' = this.calls
    /\ lastOp' = this.lastOp
    /\ jump' = this.jump
    /\ updated' = this.updated
    /\ reentered' = this.reentered
    /\ runEnds' = this.runEnds
    /\ logging' = this.logging
    /\ delivered' = this.delivered
    /\ seekBase' = this.seekBase
    /\ deliveredBefore' = this.deliveredBefore

\* a method other than loadData: the loaded race stays as it is
Install(this) == Assign(this) /\ UNCHANGED <<raceVars, loadVars, mapVars>>

\* -------------------------------------------------------------- ReplayMap
\* ReplayMap (js/replay-map.js): the markers, the trail polylines and the
\* stored trails.  A point is a pair <<lat, lon>>.

\* maxTrailLength when the options give none
DefaultTrailLength == 50

\* the map after new ReplayMap(containerId, {maxTrailLength: n})
MapConstructed(n) ==
    /\ maxTrailLength = n
    /\ selectedRunners = {}
    /\ markers = EmptyMap
    /\ trails = EmptyMap
    /\ trailPoints = EmptyMap
    /\ trailFed = EmptyMap

\* the map object: every method is an operator from the map before the call
\* to the map after it
map ==
    [maxTrailLength |-> maxTrailLength, selectedRunners |-> selectedRunners,
     markers |-> markers, trails |-> trails, trailPoints |-> trailPoints,
     trailFed |-> trailFed]

Line(points, shown) == [points |-> points, shown |-> shown]
Marker(latLng, shown) == [latLng |-> latLng, shown |-> shown]

\* (mutant) over the limit the newest point is dropped
_updateTrailPop(this, runnerId, latLng) ==
    LET old == IF runnerId \in DOMAIN this.trailPoints THEN this.trailPoints[runnerId] ELSE <<>>
        pushed == Append(old, latLng)
        kept == IF Len(pushed) > this.maxTrailLength
                THEN SubSeq(pushed, 1, Len(pushed) - 1) ELSE pushed
        fed == IF runnerId \in DOMAIN this.trailFed THEN this.trailFed[runnerId] ELSE <<>>
    IN [this EXCEPT !.trailPoints = MapPut(@, runnerId, kept),
                    !.trails = MapPut(@, runnerId, Line(kept, TRUE)),
                    !.trailFed = MapPut(@, runnerId, Append(fed, latLng))]

\* _updateTrail: push the point, shift the oldest one out when the array is
\* longer than maxTrailLength, and give the array to the runner's polyline
_updateTrail(this, runnerId, latLng) ==
    LET old == IF runnerId \in DOMAIN this.trailPoints THEN this.trailPoints[runnerId] ELSE <<>>
        pushed == Append(old, latLng)
        kept == IF Len(pushed) > this.maxTrailLength THEN Tail(pushed) ELSE pushed
        fed == IF runnerId \in DOMAIN this.trailFed THEN this.trailFed[runnerId] ELSE <<>>
    IN [this EXCEPT !.trailPoints = MapPut(@, runnerId, kept),
                    !.trails = MapPut(@, runnerId, Line(kept, TRUE)),
                    !.trailFed = MapPut(@, runnerId, Append(fed, latLng))]

\* _hideRunner: the runner's marker and polyline, if any, are made invisible
_hideRunner(this, runnerId) ==
    [this EXCEPT
        !.markers = [r \in DOMAIN @ |-> IF r = runnerId THEN Marker(@[r].latLng, FALSE) ELSE @[r]],
        !.trails = [r \in DOMAIN @ |-> IF r = runnerId THEN Line(@[r].points, FALSE) ELSE @[r]]]

RECURSIVE updatePositions(_, _)
\* updatePositions: per position, a deselected runner is hidden and skipped;
\* a selected one gets its marker moved or created and its trail updated
updatePositions(this, ps) ==
    IF ps = <<>> THEN this
    ELSE LET pos == Head(ps)
             latLng == <<pos.lat, pos.lon>>
             next == IF pos.runner \notin this.selectedRunners
                     THEN _hideRunner(this, pos.runner)
                     ELSE _updateTrail([this EXCEPT
                                           !.markers = MapPut(@, pos.runner, Marker(latLng, TRUE))],
                                       pos.runner, latLng)
         IN updatePositions(next, Tail(ps))

RECURSIVE HideAll(_, _)
HideAll(this, ids) ==
    IF ids = <<>> THEN this ELSE HideAll(_hideRunner(this, Head(ids)), Tail(ids))

\* setSelectedRunners: the selection is replaced and every runner with a
\* marker that is no longer selected is hidden
setSelectedRunners(this, runnerIds) ==
    HideAll([this EXCEPT !.selectedRunners = runnerIds],
            SortedSeq(DOMAIN this.markers \ runnerIds))

\* loadRunners: every runner of the list is selected
loadRunners(this, rs) == [this EXCEPT !.selectedRunners = RunnerIds(rs)]

\* clearTrails: every polyline is emptied and the stored trails are dropped
clearTrails(this) ==
    [this EXCEPT !.trails = [r \in DOMAIN @ |-> Line(<<>>, @[r].shown)],
                 !.trailPoints = EmptyMap,
                 !.trailFed = EmptyMap]

\* reset: markers, polylines and stored trails are removed
resetMap(this) ==
    [this EXCEPT !.markers = EmptyMap, !.trails = EmptyMap,
                 !.trailPoints = EmptyMap, !.trailFed = EmptyMap]

MapAssign(this) ==
    /\ maxTrailLength' = this.maxTrailLength
    /\ selectedRunners' = this.selectedRunners
    /\ markers' = this.markers
    /\ trails' = this.trails
    /\ trailPoints' = this.trailPoints
    /\ trailFed' = this.trailFed
    /\ UNCHANGED <<raceVars, engineVars, loadVars>>

\* ---------------------------------------------------------------- loading
\* the files loadData fetches
Resources == {"positions", "geofences", "runners", "metadata", "scoring", "trail"}

\* the fetches inside Promise.all: one rejection rejects the whole batch
PromiseAll == {"positions", "geofences", "runners", "metadata", "scoring"}

\* (mutant) the batch resolves whatever failed
FetchedAnyway(failed) == TRUE

\* the batch resolves: no fetch or parse inside Promise.all failed
Fetched(failed) == failed \cap PromiseAll = {}

TrailFile == <<"trail", 2>>

\* trail.json is fetched in its own try/catch: a failure leaves trail = null
FetchedTrail(failed) == IF "trail" \in failed THEN JSNull ELSE TrailFile

Resolved(failed) == [failed |-> failed, result |-> "resolved", error |-> ""]
Rejected(failed, error) == [failed |-> failed, result |-> "rejected", error |-> error]

OnLoadComplete(race, tr) ==
    [cb |-> "onLoadComplete", positions |-> race.positions, runners |-> race.runners,
     scoring |-> race.scoring, metadata |-> race.metadata, trail |-> tr]

\* the engine fields loadData assigns once the batch has resolved, and the
\* onLoadComplete call
loadData(this, race, failed) ==
    [this EXCEPT !.currentTime = race.metadata.startTime,
                 !.currentIndex = 0,
                 !.currentEventIndex = 0,
                 !.runnerPositions = EmptyMap,
                 !.scoringState = _resetScoringState(race.runners),
                 !.updated = FALSE,
                 !.delivered = <<>>,
                 !.seekBase = NULL,
                 !.deliveredBefore = {},
                 !.calls = <<OnLoadComplete(race, FetchedTrail(failed))>>]

\* the state after new ReplayEngine() and a successful loadData of one of
\* races, the engine being this
InitLoaded(races, this) ==
    \E race \in races :
        /\ positions = race.positions
        /\ runners = race.runners
        /\ scoring = race.scoring
        /\ startTime = race.metadata.startTime
        /\ endTime = race.metadata.endTime
        /\ totalStages = JSOr(race.metadata.totalStages, race.stageGeofences)
        /\ events = SortByTime(_generateEventsFromScoring(race.scoring), <<>>)
        /\ Holds(this)
        /\ trail = TrailFile
        /\ loadOutcome = Resolved({})
        /\ MapConstructed(DefaultTrailLength)

InitFrom(races) == InitLoaded(races, Loaded)

Init == InitFrom(Races)

\* ... of a race with the default positions and scoring
InitDefault == InitFrom(DefaultRaces)

\* an engine method called from outside (a UI handler, the host's frame
\* callback): JavaScript runs it only when no other engine code is running
Entered(name, arg) ==
    [engine EXCEPT !.calls = <<>>, !.lastOp = <<name, arg>>, !.jump = "none",
                   !.reentered = 0]

IsSeek(op) == op[1] \in {"seekToTime", "seekToPercent"}

\* a seek called from outside
EnteredSeek(name, arg, target) ==
    [Entered(name, arg) EXCEPT
        !.jump = IF ~IsSeek(lastOp) \/ Clamp(target) = currentTime THEN "none"
                 ELSE IF Clamp(target) < currentTime THEN "back" ELSE "ahead"]

PercentTime(value) == startTime + ((endTime - startTime) * value) \div SliderMax

SeekTimes == (-1)..(MaxTime + 1)
SeekPercents == {-SliderMax, 0, SliderMax \div 2, SliderMax, 2 * SliderMax}
Speeds == {0, 1, MaxSpeed}
NegativeSpeeds == {-1, -MaxSpeed}
MaxWall == 2 * MaxDelta
\* the clock is followed down to TimeFloor when a negative speed runs it backwards
TimeFloor == -MaxDelta

Play ==
    /\ pc = "idle"
    /\ Cardinality(scheduled) < MaxChains
    /\ Install(play(Entered("play", sinceLastTick)))

Pause ==
    /\ pc = "idle"
    /\ Install(pause(Entered("pause", 0)))

Toggle ==
    /\ pc = "idle"
    /\ Cardinality(scheduled) < MaxChains \/ isPlaying
    /\ Install(toggle(Entered("toggle", 0)))

SetSpeed ==
    /\ pc = "idle"
    /\ \E speed \in Speeds : Install(setSpeed(Entered("setSpeed", 0), speed))

SetSpeedNegative ==
    /\ pc = "idle"
    /\ \E speed \in NegativeSpeeds : Install(setSpeed(Entered("setSpeed", 0), speed))

SeekToTime ==
    /\ pc = "idle"
    /\ \E timestamp \in SeekTimes :
          Install(seekToTime(EnteredSeek("seekToTime", timestamp, timestamp), timestamp))

SeekToPercent ==
    /\ pc = "idle"
    /\ \E value \in SeekPercents :
          /\ ((endTime - startTime) * value) % SliderMax = 0
          /\ Install(seekToPercent(EnteredSeek("seekToPercent", value, PercentTime(value)), value))

\* the host runs a pending frame callback, delta seconds of wall time
\* after the previous step
Frame ==
    /\ pc = "idle"
    /\ \E id \in scheduled, delta \in 0..MaxDelta :
          /\ sinceLastTick + delta <= MaxWall
          /\ currentTime + (sinceLastTick + delta) * playbackSpeed >= TimeFloor
          /\ Install(TickBegin([Entered("tick", 0) EXCEPT
                                   !.scheduled = @ \ {id},
                                   !.sinceLastTick = @ + delta]))

\* the callback the tick in flight calls next; the observer calls nothing back
Callback ==
    /\ pc # "idle"
    /\ Install(Resume(Fire(engine)))

\* ... the observer calls pause() from inside the callback
CalledBack(name) == [cb |-> name]

Reentered(this, name) ==
    [this EXCEPT !.reentered = @ + 1, !.calls = Append(@, CalledBack(name))]

CallbackPause ==
    /\ pc # "idle"
    /\ reentered < MaxReentries
    /\ Install(Resume(pause(Reentered(Fire(engine), "pause()"))))

\* ... the observer calls seekToTime() from inside the callback
CallbackSeek ==
    /\ pc # "idle"
    /\ reentered < MaxReentries
    /\ \E timestamp \in SeekTimes :
          Install(Resume(seekToTime(Reentered(Fire(engine), "seekToTime()"), timestamp)))

Next ==
    \/ Play \/ Pause \/ Toggle \/ SetSpeed \/ SeekToTime \/ SeekToPercent
    \/ Frame \/ Callback

Spec == Init /\ [][Next]_vars

\* setSpeed with any number, negative ones included
NextAnySpeed == Next \/ SetSpeedNegative

SpecAnySpeed == InitDefault /\ [][NextAnySpeed]_vars

\* observers that call back into the engine
NextReentrant == Next \/ CallbackPause \/ CallbackSeek

SpecReentrant == InitDefault /\ [][NextReentrant]_vars

\* setSpeed with a multiplier above 0
SetSpeedPositive ==
    /\ pc = "idle"
    /\ \E speed \in 1..MaxSpeed : Install(setSpeed(Entered("setSpeed", 0), speed))

\* the host runs a pending frame callback some wall time after the previous step
FramePositive ==
    /\ pc = "idle"
    /\ \E id \in scheduled, delta \in 1..MaxDelta :
          /\ sinceLastTick + delta <= MaxWall
          /\ Install(TickBegin([Entered("tick", 0) EXCEPT
                                   !.scheduled = @ \ {id},
                                   !.sinceLastTick = @ + delta]))

\* uninterrupted playback at multipliers above 0: the host runs every frame
\* the engine requests, and every callback returns
NextRun == Play \/ SetSpeedPositive \/ FramePositive \/ Callback

\* every callback returns: weak fairness of Callback, which is enabled exactly
\* when a tick is in flight
CallbacksReturn == []<>(pc = "idle") \/ []<><<Callback>>_vars

SpecRun == InitDefault /\ [][NextRun]_vars /\ WF_vars(FramePositive) /\ CallbacksReturn

\* wall time passes with no engine code running
Wait ==
    /\ pc = "idle"
    /\ \E delta \in 1..MaxDelta :
          /\ sinceLastTick + delta <= MaxWall
          /\ Install([Entered("wait", delta) EXCEPT !.sinceLastTick = @ + delta])

\* playback paused and resumed while the wall clock runs on
NextWall == Play \/ Pause \/ SetSpeed \/ Wait \/ Frame \/ Callback

SpecWall == InitDefault /\ [][NextWall]_vars

\* observers that call pause() from their callbacks
NextPausing == Play \/ Pause \/ Toggle \/ SetSpeed \/ SeekToTime \/ Frame \/ Callback \/ CallbackPause

SpecPausing == InitDefault /\ [][NextPausing]_vars

\* the state after new ReplayEngine(), before any loadData
InitConstructed ==
    /\ positions = <<>>
    /\ runners = <<>>
    /\ scoring = <<>>
    /\ events = <<>>
    /\ totalStages = NULL
    /\ startTime = 0
    /\ endTime = 0
    /\ Holds([Loaded EXCEPT !.lastOp = <<"constructor", 0>>])
    /\ trail = JSNull
    /\ loadOutcome = [failed |-> {}, result |-> "none", error |-> ""]
    /\ MapConstructed(DefaultTrailLength)

\* what can go wrong in one loadData: nothing, or the fetch or parse of one file
FailureChoices == {{}} \cup {{res} : res \in Resources}

\* loadData(raceId) settles: the continuation after the awaits runs when no
\* other engine code is running
LoadData ==
    /\ pc = "idle"
    /\ \E race \in DefaultRaces, failed \in FailureChoices :
          IF Fetched(failed)
          THEN /\ positions' = race.positions
               /\ runners' = race.runners
               /\ scoring' = race.scoring
               /\ startTime' = race.metadata.startTime
               /\ endTime' = race.metadata.endTime
               /\ totalStages' = JSOr(race.metadata.totalStages, race.stageGeofences)
               /\ events' = SortByTime(_generateEventsFromScoring(race.scoring), <<>>)
               /\ trail' = FetchedTrail(failed)
               /\ Assign(loadData(Entered("loadData", 0), race, failed))
               /\ loadOutcome' = Resolved(failed)
               /\ UNCHANGED mapVars
          ELSE /\ \E error \in failed \cap PromiseAll : loadOutcome' = Rejected(failed, error)
               /\ Assign(Entered("loadData", 0))
               /\ UNCHANGED <<raceVars, trail, mapVars>>

\* an engine loaded with a race that follows one runner, sought and played
\* at the speed it starts with
NextPositions == Play \/ Pause \/ SeekToTime \/ Frame \/ Callback

SpecPositions == InitFrom(SampleRaces) /\ [][NextPositions]_vars

\* a loaded engine whose observer keeps a log of the events it is passed
InitLogging == InitLoaded(DefaultRaces, [Loaded EXCEPT !.logging = TRUE])

NextDelivery == Play \/ Pause \/ SetSpeed \/ SeekToTime \/ Frame \/ Callback

SpecDelivery == InitLogging /\ [][NextDelivery]_vars

\* a map with a small maxTrailLength, next to a loaded engine that is left
\* alone; the positions it is passed are lists of the runners at one point
InitMap ==
    /\ \E race \in DefaultRaces :
          /\ positions = race.positions
          /\ runners = race.runners
          /\ scoring = race.scoring
          /\ startTime = race.metadata.startTime
          /\ endTime = race.metadata.endTime
          /\ totalStages = JSOr(race.metadata.totalStages, race.stageGeofences)
          /\ events = SortByTime(_generateEventsFromScoring(race.scoring), <<>>)
    /\ Holds(Loaded)
    /\ trail = TrailFile
    /\ loadOutcome = Resolved({})
    /\ \E n \in 1..MaxTrail : MapConstructed(n)

MapPoints == 0..1

\* the lists updatePositions is passed: some of the runners, in id order
PositionLists ==
    {[i \in 1..Len(SortedSeq(S)) |->
         [runner |-> SortedSeq(S)[i], lat |-> p, lon |-> p + SortedSeq(S)[i]]] :
        S \in SUBSET RunnerIds(RunnerList), p \in MapPoints}

UpdatePositions ==
    \E ps \in PositionLists :
        /\ \A r \in DOMAIN trailFed : Len(trailFed[r]) < MaxFed
        /\ MapAssign(updatePositions(map, ps))

SetSelectedRunners ==
    \E ids \in SUBSET RunnerIds(RunnerList) : MapAssign(setSelectedRunners(map, ids))

LoadRunners == MapAssign(loadRunners(map, RunnerList))

ClearTrails == MapAssign(clearTrails(map))

ResetMap == MapAssign(resetMap(map))

NextMap == UpdatePositions \/ SetSelectedRunners \/ LoadRunners \/ ClearTrails \/ ResetMap

SpecMap == InitMap /\ [][NextMap]_vars

\* an engine that is constructed and then loaded, perhaps more than once
NextLoad == Next \/ LoadData

SpecLoad == InitConstructed /\ [][NextLoad]_vars

\* ================================================================ claims
CursorState(this) ==
    <<this.currentTime, this.currentIndex, this.currentEventIndex,
      this.runnerPositions, this.scoringState,
      getScores(this.currentTime), getCurrentPositions(this.currentTime)>>

RanTick == lastOp[1] \in {"tick", "play", "toggle"} /\ calls # <<>>

\* C1: tick/seek equivalence.  Once the clock has been moved by ticks (or by
\* seeks and then ticks) with non-negative speed, the engine's clock, cursors,
\* runnerPositions, scoringState, scores and positions are those that
\* seekToTime(currentTime) produces, from the engine as it stands and from a
\* freshly loaded one.
C1_TickEqualsSeek ==
    updated =>
        /\ CursorState(engine) = CursorState(seekToTime(engine, currentTime))
        /\ CursorState(engine) = CursorState(seekToTime(Loaded, currentTime))

C1_Witness ==
    /\ lastOp[1] = "tick"
    /\ pc = "idle"
    /\ startTime < currentTime
    /\ currentTime < endTime
    /\ currentIndex >= 2
    /\ currentEventIndex >= 3

\* what an observer and a caller can see of the engine after a seek
Snapshot(this) ==
    <<this.currentTime, this.currentIndex, this.currentEventIndex,
      this.runnerPositions, this.scoringState, this.calls>>

Fresh == [Loaded EXCEPT !.calls = <<>>]

\* C2: seek determinism.  After any seek, whatever the engine's state before
\* it (another seek forward or backward of the target included), the engine
\* state and the snapshots passed to onUpdate and onScoreUpdate are those of
\* a freshly loaded engine on which only that seek is called.
C2_SeekDeterminism ==
    /\ lastOp[1] = "seekToTime" =>
          Snapshot(engine) = Snapshot(seekToTime(Fresh, lastOp[2]))
    /\ lastOp[1] = "seekToPercent" =>
          Snapshot(engine) = Snapshot(seekToPercent(Fresh, lastOp[2]))

C2_Witness ==
    /\ lastOp[1] = "seekToTime"
    /\ jump = "back"
    /\ currentIndex = 1
    /\ currentEventIndex >= 1
    /\ currentEventIndex < Len(events)

\* C3: the clock invariant, for every multiplier setSpeed accepts.
C3_ClockInRange == startTime <= currentTime /\ currentTime <= endTime

Idle == [engine EXCEPT !.calls = <<>>]

ExactPercent(value) == ((endTime - startTime) * value) % SliderMax = 0

\* C4: out-of-range seeks are clamped.  In every state, seekToTime with a
\* time before startTime (after endTime) leaves the same engine and fires the
\* same callbacks with the same arguments as seekToTime(startTime)
\* (seekToTime(endTime)), and seekToPercent with a fraction below 0 (above 1)
\* the same as seekToPercent(0) (seekToPercent(1)).
C4_SeekClamped ==
    pc = "idle" =>
        /\ \A t \in SeekTimes :
              /\ t < startTime => seekToTime(Idle, t) = seekToTime(Idle, startTime)
              /\ t > endTime => seekToTime(Idle, t) = seekToTime(Idle, endTime)
        /\ \A v \in SeekPercents :
              /\ (v < 0 /\ ExactPercent(v)) => seekToPercent(Idle, v) = seekToPercent(Idle, 0)
              /\ (v > SliderMax /\ ExactPercent(v)) =>
                     seekToPercent(Idle, v) = seekToPercent(Idle, SliderMax)

C4_Witness ==
    /\ lastOp[1] = "seekToPercent"
    /\ lastOp[2] > SliderMax
    /\ startTime < endTime
    /\ currentTime = endTime
    /\ currentIndex >= 1
    /\ Len(calls) = 2

TimeChanges == {i \in DOMAIN calls : calls[i].cb = "onTimeChange"}

\* C5: playback termination.  A tick that reaches endTime leaves the clock at
\* exactly endTime and the engine Paused with both cursors brought up to
\* endTime, passes stillPlaying = false to onTimeChange (the only such call
\* of the run) and leaves no tick scheduled; a tick that stays below endTime
\* passes stillPlaying = true and leaves the engine Playing.
C5_PlaybackTermination ==
    /\ runEnds <= 1
    /\ runEnds = 1 => ~isPlaying /\ scheduled = {} /\ (pc = "idle" \/ ~tickPlaying)
    /\ \A i \in TimeChanges : calls[i].playing <=> calls[i].time < endTime
    /\ (pc = "idle" /\ RanTick) =>
          /\ Cardinality(TimeChanges) = 1
          /\ calls[Len(calls)].cb = "onTimeChange"
          /\ calls[Len(calls)].time = currentTime
          /\ IF currentTime >= endTime
             THEN /\ currentTime = endTime
                  /\ ~isPlaying
                  /\ scheduled = {}
                  /\ runEnds = 1
                  /\ ~calls[Len(calls)].playing
                  /\ currentIndex = Cardinality({i \in DOMAIN positions : positions[i].t <= endTime})
                  /\ currentEventIndex = Cardinality({i \in DOMAIN events : events[i].t <= endTime})
             ELSE /\ isPlaying
                  /\ runEnds = 0
                  /\ calls[Len(calls)].playing

C5_Witness ==
    /\ pc = "idle"
    /\ lastOp[1] = "tick"
    /\ startTime < endTime
    /\ currentTime = endTime
    /\ runEnds = 1
    /\ \E i \in DOMAIN calls : calls[i].cb = "onEvent"

CallNames == [i \in DOMAIN calls |-> calls[i].cb]

Rank(name) ==
    IF name = "onUpdate" THEN 1
    ELSE IF name = "onEvent" THEN 2
    ELSE IF name = "onScoreUpdate" THEN 3
    ELSE 4

EventCalls == {i \in DOMAIN calls : calls[i].cb = "onEvent"}

\* the callbacks of a whole tick that crossed n events
TickPattern(n) ==
    [i \in 1..(n + 3) |->
        IF i <= n THEN "onEvent"
        ELSE IF i = n + 1 THEN "onScoreUpdate"
        ELSE IF i = n + 2 THEN "onUpdate"
        ELSE "onTimeChange"]

\* the position and score callbacks among the calls, in the order fired
UpdateAndScore == SelectSeq(CallNames, LAMBDA name : name \in {"onUpdate", "onScoreUpdate"})

PauseCalls == {i \in DOMAIN calls : calls[i].cb = "pause()"}

\* C7: pause() called from inside an observer callback of a tick in flight:
\* the callbacks that tick fires afterwards do not report the engine as still
\* playing, and once the tick has completed the engine is Paused with no
\* tick scheduled.
C7_PauseInCallback ==
    \A i \in PauseCalls :
        /\ \A j \in TimeChanges : j > i => ~calls[j].playing
        /\ pc = "idle" => ~isPlaying /\ scheduled = {}

\* C8: at most one tick callback is scheduled with the host.
C8_SingleTickChain == Cardinality(scheduled) <= 1

\* C9: play() is idempotent.  Called while Playing it changes no engine
\* field, fires no callback and requests no frame; called while Paused it
\* sets isPlaying and runs the first tick at once, with no wall time counted:
\* that tick either leaves the engine Playing or, with the clock already at
\* endTime, is the end tick.
C9_PlayIdempotent ==
    [][(pc = "idle" /\ lastOp' = <<"play", 0>>) =>
          IF isPlaying
          THEN /\ UNCHANGED <<currentTime, currentIndex, currentEventIndex, runnerPositions,
                              scoringState, isPlaying, playbackSpeed, sinceLastTick,
                              animationFrameId, scheduled, pc, newEvents, runEnds>>
               /\ calls' = <<>>
          ELSE /\ pc' \in {"onEvent", "onScoreUpdate"}
               /\ updated'
               /\ currentTime' = currentTime
               /\ sinceLastTick' = 0
               /\ tickPlaying' = isPlaying'
               /\ isPlaying' <=> currentTime < endTime
               /\ currentIndex' = Cardinality({i \in DOMAIN positions : positions[i].t <= currentTime})
               /\ scheduled' = scheduled
               /\ calls' = <<>>]_vars

C9_Witness ==
    /\ pc = "idle"
    /\ lastOp = <<"play", 0>>
    /\ calls = <<>>
    /\ isPlaying
    /\ Cardinality(scheduled) = 1
    /\ currentTime > startTime

\* C10: hasStarted is true exactly when exited_start is present (0 included)
\* and currentTime >= exited_start, and hasFinished likewise for enter_finish.
C10_StartedFinishedFlags ==
    \A i \in DOMAIN runners :
        HasRecord(runners[i]) =>
            LET s == ScoringLookup(scoring, runners[i], NULL)
                score == getScores(currentTime)[i]
            IN /\ TruthyVal(score.hasStarted) <=>
                      (s.exited_start # NULL /\ currentTime >= s.exited_start)
               /\ TruthyVal(score.hasFinished) <=>
                      (s.enter_finish # NULL /\ currentTime >= s.enter_finish)


\* ---- the score evaluator as the specification words it
RecordOf(runner) == ScoringLookup(scoring, runner, NULL)

Present(n) == n # NULL

RECURSIVE StatedDwell(_, _, _)
\* stageDwellTime as stated: a window left by time contributes exit - enter,
\* a window entered and not left by time (exit later or absent) time - enter
StatedDwell(st, stages, time) ==
    IF stages = <<>> THEN 0
    ELSE LET w == st[Head(stages)]
         IN (IF Present(w.enter) /\ Present(w.exit) /\ time >= w.exit THEN w.exit - w.enter
             ELSE IF Present(w.enter) /\ time >= w.enter THEN time - w.enter
             ELSE 0)
            + StatedDwell(st, Tail(stages), time)

StatedCompleted(st, time) ==
    Cardinality({n \in DOMAIN st : Present(st[n].enter) /\ Present(st[n].exit)
                                     /\ time >= st[n].exit})

StatedStarted(s, time) == Present(s.exited_start) /\ time >= s.exited_start
StatedFinished(s, time) == Present(s.enter_finish) /\ time >= s.enter_finish

\* the record of the stated example, and its snapshot at currentTime = 25
DwellExample ==
    [runner_id |-> 1, exited_start |-> 0, enter_finish |-> 30, total_run_time |-> 20,
     total_stages |-> 1, stage_timestamps |-> (1 :> Window(10, 20))]

DwellExampleScore == RecordScore(1, DwellExample, 25)

\* C11: dwell subtraction.  For every runner that has started (exited_start
\* present and <= currentTime) and not finished, the snapshot has
\* elapsedTime = (currentTime - exited_start) - stageDwellTime and counts one
\* completed stage per window left; and the record exited_start = 0,
\* stage {enter: 10, exit: 20}, enter_finish = 30 gives at 25 the snapshot
\* hasStarted = true, hasFinished = false, stages = 1, elapsedTime = 15.
C11_DwellSubtraction ==
    /\ \A i \in DOMAIN runners :
          LET s == RecordOf(runners[i])
              score == getScores(currentTime)[i]
          IN (HasRecord(runners[i]) /\ StatedStarted(s, currentTime)
                                    /\ ~StatedFinished(s, currentTime)) =>
                /\ score.stages = StatedCompleted(s.stage_timestamps, currentTime)
                /\ score.elapsedTime =
                      Num((currentTime - s.exited_start)
                          - StatedDwell(s.stage_timestamps,
                                        SortedSeq(DOMAIN s.stage_timestamps), currentTime))
    /\ DwellExampleScore.hasStarted = JSBool(TRUE)
    /\ DwellExampleScore.hasFinished = JSBool(FALSE)
    /\ DwellExampleScore.stages = 1
    /\ DwellExampleScore.elapsedTime = Num(15)

\* C12: a finished runner's elapsed time is stable.  For every runner that
\* has started (without a start elapsedTime is absent) and whose enter_finish
\* is present, at every clock value >= enter_finish the snapshot's
\* elapsedTime is the record's total_run_time.
C12_FinishedElapsedStable ==
    \A i \in DOMAIN runners :
        LET s == RecordOf(runners[i])
        IN (HasRecord(runners[i]) /\ StatedStarted(s, currentTime)
                                  /\ StatedFinished(s, currentTime)) =>
              getScores(currentTime)[i].elapsedTime = Field(s.total_run_time)

\* C13: dwell accrues for an open stage.  For a runner the evaluator reports
\* as started and not finished, every window entered by currentTime whose
\* exit is later or absent takes currentTime - enter off elapsedTime (and
\* every window left takes exit - enter off).
C13_OpenStageDwell ==
    \A i \in DOMAIN runners :
        LET s == RecordOf(runners[i])
            score == getScores(currentTime)[i]
        IN (HasRecord(runners[i]) /\ TruthyVal(score.hasStarted)
                                  /\ ~TruthyVal(score.hasFinished)) =>
              score.elapsedTime =
                  Num((currentTime - s.exited_start)
                      - StatedDwell(s.stage_timestamps,
                                    SortedSeq(DOMAIN s.stage_timestamps), currentTime))

\* runner i is reported as started and not finished at time
Running(i, time) ==
    /\ HasRecord(runners[i])
    /\ TruthyVal(Score(runners[i], time).hasStarted)
    /\ ~TruthyVal(Score(runners[i], time).hasFinished)

Elapsed(i, time) == Score(runners[i], time).elapsedTime[2]

\* the stage windows of runner i
StageWindows(i) ==
    LET st == RecordOf(runners[i]).stage_timestamps IN {st[n] : n \in DOMAIN st}

\* window w holds the runner throughout [t1, t2]
InsideThroughout(w, t1, t2) ==
    Present(w.enter) /\ w.enter <= t1 /\ (Present(w.exit) => w.exit >= t2)

\* window w holds the runner at no moment of [t1, t2]
OutsideThroughout(w, t1, t2) ==
    ~Present(w.enter) \/ w.enter >= t2 \/ (Present(w.exit) /\ w.exit <= t1)

TickStep == pc = "idle" /\ lastOp'[1] \in {"tick", "play", "toggle"}

\* C14: elapsed time under forward ticks.  When a tick moves the clock from t
\* to t' > t and a runner (whose stage windows all have an exit time) is
\* started and unfinished at both, its elapsedTime
\* does not decrease; it stays the same when some stage window holds the
\* runner throughout [t, t'], and grows by t' - t when none holds it at any
\* moment of [t, t'] -- whatever the stage windows, overlapping ones included.
C14_ElapsedMonotone ==
    [][(TickStep /\ currentTime' > currentTime) =>
          \A i \in DOMAIN runners :
              (/\ Running(i, currentTime) /\ Running(i, currentTime')
               /\ \A w \in StageWindows(i) : Present(w.exit)) =>
                 /\ Elapsed(i, currentTime') >= Elapsed(i, currentTime)
                 /\ (\E w \in StageWindows(i) : InsideThroughout(w, currentTime, currentTime'))
                       => Elapsed(i, currentTime') = Elapsed(i, currentTime)
                 /\ (\A w \in StageWindows(i) : OutsideThroughout(w, currentTime, currentTime'))
                       => Elapsed(i, currentTime') = Elapsed(i, currentTime) + (currentTime' - currentTime)
      ]_vars

ScoreCalls == {i \in DOMAIN calls : calls[i].cb = "onScoreUpdate"}

\* C15: missing scoring is not an error.  A runner of the runner list without
\* a scoring record gets, at every clock value and in every onScoreUpdate,
\* the snapshot stages = 0, hasStarted = false, hasFinished = false,
\* elapsedTime = null, totalStages = the race-level count; the snapshot of a
\* runner that has a record is the one computed from its record alone.
C15_MissingScoring ==
    \A i \in DOMAIN runners :
        LET zero == [runner |-> runners[i], stages |-> 0, totalStages |-> totalStages,
                     hasStarted |-> JSBool(FALSE), hasFinished |-> JSBool(FALSE),
                     elapsedTime |-> JSNull]
            expected == IF HasRecord(runners[i])
                        THEN RecordScore(runners[i], RecordOf(runners[i]), currentTime)
                        ELSE zero
        IN /\ getScores(currentTime)[i] = expected
           /\ \A c \in ScoreCalls :
                 /\ DOMAIN calls[c].scores = DOMAIN runners
                 /\ calls[c].scores[i] = expected

C15_Witness ==
    /\ ScoreCalls # {}
    /\ currentTime > startTime
    /\ \E i \in DOMAIN runners : ~HasRecord(runners[i])
    /\ \E i \in DOMAIN runners :
          /\ HasRecord(runners[i])
          /\ TruthyVal(getScores(currentTime)[i].hasStarted)
          /\ getScores(currentTime)[i].stages >= 1


\* the last call from outside was loadData, and these fetches or parses failed
LoadedWith(failed) == lastOp[1] = "loadData" /\ loadOutcome.failed = failed

LoadCompletes == {i \in DOMAIN calls : calls[i].cb = "onLoadComplete"}

\* C16: the scoring resource is optional at load.  When only scoring.json
\* fails to fetch or parse, loadData resolves and fires onLoadComplete, the
\* event timeline is empty and every runner reports the unscored snapshot.
C16_ScoringOptional ==
    LoadedWith({"scoring"}) =>
        /\ loadOutcome.result = "resolved"
        /\ LoadCompletes # {}
        /\ events = <<>>
        /\ \A i \in DOMAIN runners :
              /\ getScores(currentTime)[i].stages = 0
              /\ getScores(currentTime)[i].hasStarted = JSBool(FALSE)
              /\ getScores(currentTime)[i].hasFinished = JSBool(FALSE)
              /\ getScores(currentTime)[i].elapsedTime = JSNull

RequiredResources == {"positions", "geofences", "runners", "metadata"}

\* the fields the engine exposes
EngineFields ==
    <<positions, runners, scoring, events, totalStages, startTime, endTime, trail,
      currentTime, currentIndex, currentEventIndex, runnerPositions, scoringState,
      isPlaying, playbackSpeed, animationFrameId, scheduled>>

\* C17: load failure is all-or-nothing.  A loadData in which the fetch or
\* parse of positions, geofences, runners or metadata fails rejects, with
\* the error of that resource, fires no onLoadComplete and leaves every
\* engine field as it was before the call; a loadData in which only
\* trail.json fails resolves, with trail = null.
C17_LoadAllOrNothing ==
    /\ [](\A res \in RequiredResources :
             LoadedWith({res}) =>
                /\ loadOutcome.result = "rejected"
                /\ loadOutcome.error = res
                /\ LoadCompletes = {})
    /\ [](LoadedWith({"trail"}) =>
             /\ loadOutcome.result = "resolved"
             /\ Cardinality(LoadCompletes) = 1
             /\ trail = JSNull
             /\ currentTime = startTime /\ currentIndex = 0 /\ currentEventIndex = 0)
    /\ [][(lastOp'[1] = "loadData" /\ loadOutcome'.failed \cap RequiredResources # {})
             => UNCHANGED EngineFields]_vars

C17_Witness ==
    /\ LoadedWith({"metadata"})
    /\ loadOutcome.result = "rejected"
    /\ positions # <<>>
    /\ currentTime > startTime
    /\ currentIndex >= 1
    /\ isPlaying
    /\ scheduled # {}


\* ---- interpolation
\* runner ids with samples, and one without any
SampledRunners == HistoryKeys \cup {0}

QueryTimes == (-1)..(MaxTime + 1)

At(sample) == [lat |-> Ratio(sample.lat, 1), lon |-> Ratio(sample.lon, 1)]

UpdateCalls == {c \in DOMAIN calls : calls[c].cb = "onUpdate"}

\* the entries of runner r in the positions an onUpdate call passed
Reported(c, r) ==
    {[lat |-> calls[c].positions[k].lat, lon |-> calls[c].positions[k].lon] :
        k \in {j \in DOMAIN calls[c].positions : calls[c].positions[j].r = r}}

ExampleSamples == <<[t |-> 0, lat |-> 0, lon |-> 0], [t |-> 10, lat |-> 10, lon |-> 10]>>

\* C18: interpolation boundaries.  For every sample sequence of the loaded
\* race and every query time, the position is absent when the sequence is
\* empty or the time is before the first sample, and is the last sample's
\* coordinates from the last sample's time on; onUpdate reports the runner
\* accordingly; and for samples [(0, 0, 0), (10, 10, 10)] the result at -1 is
\* absent, at 20 is (10, 10), at 5 is (5, 5).
C18_InterpolationBoundaries ==
    /\ \A r \in SampledRunners, time \in QueryTimes :
          LET h == History(r, positions)
          IN /\ (h = <<>> \/ time < h[1].t) => _interpolatePosition(h, time) = NoPosition
             /\ (h # <<>> /\ time >= h[Len(h)].t) =>
                    _interpolatePosition(h, time) = At(h[Len(h)])
    /\ \A c \in UpdateCalls, r \in HistoryKeys :
          LET h == History(r, positions)
          IN /\ calls[c].time < h[1].t => Reported(c, r) = {}
             /\ calls[c].time >= h[Len(h)].t => Reported(c, r) = {At(h[Len(h)])}
    /\ _interpolatePosition(ExampleSamples, -1) = NoPosition
    /\ _interpolatePosition(ExampleSamples, 20) = [lat |-> Ratio(10, 1), lon |-> Ratio(10, 1)]
    /\ _interpolatePosition(ExampleSamples, 5) = [lat |-> Ratio(5, 1), lon |-> Ratio(5, 1)]

\* an onUpdate before the runner's first sample, at a clock a tick reached
C18_Witness ==
    /\ lastOp[1] = "tick"
    /\ \E c \in UpdateCalls :
          /\ calls[c].positions = <<>>
          /\ calls[c].time >= 1
          /\ Len(History(1, positions)) >= 2
          /\ calls[c].time < History(1, positions)[1].t

\* a number between two whole numbers, bounds included
Between(q, a, b) == Min(a, b) * q[2] <= q[1] /\ q[1] <= Max(a, b) * q[2]

\* the interior of sample sequence h: the times from its first sample up to
\* its last, the last excluded
Interior(h) == {time \in QueryTimes : h # <<>> /\ h[1].t <= time /\ time < h[Len(h)].t}

\* C19: interpolation interior.  For first.t <= time < last.t the binary
\* search ends on two adjacent samples p1, p2 with p1.t <= time < p2.t, the
\* result is p1 + (p2 - p1) * (time - p1.t) / (p2.t - p1.t) in lat and in lon,
\* it is p1 at time = p1.t and lies between p1 and p2 in each coordinate; and
\* onUpdate reports that position.
C19_InterpolationInterior ==
    \A r \in HistoryKeys :
        LET h == History(r, positions)
        IN \A time \in Interior(h) :
              LET b == Bracket(h, time, 1, Len(h))
                  i == CHOOSE k \in 1..(Len(h) - 1) : h[k].t <= time /\ time < h[k + 1].t
                  p1 == h[i]
                  p2 == h[i + 1]
                  result == _interpolatePosition(h, time)
              IN /\ b = <<i, i + 1>>
                 /\ result.lat = Ratio(p1.lat * (p2.t - p1.t) + (p2.lat - p1.lat) * (time - p1.t),
                                       p2.t - p1.t)
                 /\ result.lon = Ratio(p1.lon * (p2.t - p1.t) + (p2.lon - p1.lon) * (time - p1.t),
                                       p2.t - p1.t)
                 /\ time = p1.t => result = At(p1)
                 /\ Between(result.lat, p1.lat, p2.lat)
                 /\ Between(result.lon, p1.lon, p2.lon)
                 /\ \A c \in UpdateCalls : calls[c].time = time => Reported(c, r) = {result}

\* an onUpdate strictly between the third and the fourth sample
C19_Witness ==
    \E c \in UpdateCalls :
        LET h == History(1, positions)
        IN /\ Len(h) = MaxSamples
           /\ calls[c].time \in Interior(h)
           /\ h[3].t < calls[c].time
           /\ calls[c].time < h[4].t
           /\ calls[c].positions[1].lat[2] > 1

\* samples k and k + 1 share a timestamp no other sample of h has
TwinSamples(h, k) ==
    /\ h[k].t = h[k + 1].t
    /\ \A j \in DOMAIN h : h[j].t = h[k].t => j \in {k, k + 1}

\* C20: degenerate interval.  When two consecutive samples share a timestamp
\* and the position is queried at it, interpolation returns the coordinates
\* of the earlier of the two.
C20_DegenerateInterval ==
    \A r \in HistoryKeys :
        LET h == History(r, positions)
        IN \A k \in 1..(Len(h) - 1) :
              TwinSamples(h, k) =>
                 /\ _interpolatePosition(h, h[k].t) = At(h[k])
                 /\ \A c \in UpdateCalls :
                       calls[c].time = h[k].t => Reported(c, r) = {At(h[k])}


\* ---- the event timeline
\* the timeline's events of runner r, of one type and one stage
Derived(r, type, stage) ==
    {i \in DOMAIN events : events[i].r = r /\ events[i].type = type /\ events[i].stage = stage}

\* exactly one such event, at time t, when t is present, and none otherwise
OnePerTimestamp(r, type, stage, t) ==
    /\ Cardinality(Derived(r, type, stage)) = IF Present(t) THEN 1 ELSE 0
    /\ \A i \in Derived(r, type, stage) : events[i].t = t

\* C21: event derivation.  The timeline holds exactly one exit_start per record
\* whose exited_start is present (whatever its value, 0 included), one
\* enter_finish per record whose enter_finish is present, one enter_stage(n)
\* and one exit_stage(n) per stage window whose enter, respectively exit, is
\* present, each at that timestamp with the record's runner id, and no other
\* event.
C21_EventDerivation ==
    /\ \A k \in DOMAIN scoring :
          LET s == scoring[k]
          IN /\ OnePerTimestamp(s.runner_id, "exit_start", NULL, s.exited_start)
             /\ OnePerTimestamp(s.runner_id, "enter_finish", NULL, s.enter_finish)
             /\ \A n \in DOMAIN s.stage_timestamps :
                   /\ OnePerTimestamp(s.runner_id, "enter_stage", n, s.stage_timestamps[n].enter)
                   /\ OnePerTimestamp(s.runner_id, "exit_stage", n, s.stage_timestamps[n].exit)
    /\ \A i \in DOMAIN events :
          \E k \in DOMAIN scoring :
              /\ events[i].r = scoring[k].runner_id
              /\ \/ events[i].type \in {"exit_start", "enter_finish"} /\ events[i].stage = NULL
                 \/ /\ events[i].type \in {"enter_stage", "exit_stage"}
                    /\ events[i].stage \in DOMAIN scoring[k].stage_timestamps

\* where the builder emits event e: the place of its record in the scoring
\* file, and within the record exit_start, then per stage (in stage order)
\* enter before exit, then enter_finish
EmissionRank(e) ==
    <<CHOOSE k \in DOMAIN scoring : scoring[k].runner_id = e.r,
      IF e.type = "exit_start" THEN 0
      ELSE IF e.type = "enter_stage" THEN 2 * e.stage - 1
      ELSE IF e.type = "exit_stage" THEN 2 * e.stage
      ELSE 2 * (Len(events) + MaxTime) + 1>>

EmittedBefore(a, b) ==
    \/ EmissionRank(a)[1] < EmissionRank(b)[1]
    \/ EmissionRank(a)[1] = EmissionRank(b)[1] /\ EmissionRank(a)[2] < EmissionRank(b)[2]

\* C22: the loaded timeline is ascending by time, and events of the same time
\* stand in the order the builder emitted them.
C22_TimelineSortedStable ==
    \A i, j \in DOMAIN events :
        i < j =>
           /\ events[i].t <= events[j].t
           /\ events[i].t = events[j].t => EmittedBefore(events[i], events[j])

\* a loaded timeline with ties inside one record and between two records,
\* and an event emitted later that sorts earlier
C22_Witness ==
    /\ lastOp[1] = "loadData"
    /\ \E i, j \in DOMAIN events :
          i < j /\ events[i].t = events[j].t /\ events[i].r = events[j].r
    /\ \E i, j \in DOMAIN events :
          i < j /\ events[i].t = events[j].t /\ events[i].r # events[j].r
    /\ \E i, j \in DOMAIN events :
          i < j /\ events[i].t < events[j].t /\ EmittedBefore(events[j], events[i])


\* ---- notifications, speed, loading, toggle, progress
\* C23: a seek notifies observers as a tick does.  Every seekToTime and
\* seekToPercent fires onUpdate with the positions at the new time,
\* onScoreUpdate with the recomputed scores, and onTimeChange with the new
\* currentTime and progress.
C23_SeekNotifies ==
    IsSeek(lastOp) =>
        /\ \E c \in UpdateCalls :
              calls[c].positions = getCurrentPositions(currentTime) /\ calls[c].time = currentTime
        /\ \E c \in ScoreCalls : calls[c].scores = getScores(currentTime)
        /\ \E c \in TimeChanges :
              calls[c].time = currentTime /\ calls[c].progress = getProgress(currentTime)

SetSpeedStep == pc = "idle" /\ lastOp'[1] = "setSpeed"

\* the clock after a tick that finds the engine Playing, delta seconds of
\* wall time after the previous tick
ClockAfterTick(delta) ==
    TickBegin([engine EXCEPT !.isPlaying = TRUE, !.sinceLastTick = delta]).currentTime

\* C24: setSpeed changes the multiplier only.  A setSpeed call, Playing or
\* Paused, leaves currentTime, both cursors, runnerPositions, scoringState,
\* the playing flag and the pending frames as they are and fires no
\* callback; and in every state a tick delta seconds later moves the clock by
\* delta times the multiplier then in force (up to endTime).
C24_SetSpeedOnlyScales ==
    /\ [][SetSpeedStep =>
             /\ UNCHANGED <<currentTime, currentIndex, currentEventIndex, runnerPositions,
                            scoringState, isPlaying, scheduled, animationFrameId>>
             /\ calls' = <<>>]_vars
    /\ [](\A delta \in 0..MaxDelta :
             ClockAfterTick(delta) = Min(endTime, currentTime + delta * playbackSpeed))
    /\ [][(pc = "idle" /\ lastOp'[1] = "tick") =>
             \E delta \in 0..MaxWall :
                 currentTime' = Min(endTime, currentTime + delta * playbackSpeed)]_vars

\* the multiplier raised in mid-playback, past the start of the race
C24_Witness ==
    /\ lastOp[1] = "setSpeed"
    /\ isPlaying
    /\ scheduled # {}
    /\ playbackSpeed = MaxSpeed
    /\ startTime < currentTime
    /\ currentTime < endTime
    /\ currentEventIndex >= 1

\* C25: the state after a load.  After every loadData that resolves, the
\* first or a reload in any engine state, the engine is Paused with no tick
\* scheduled, currentTime = startTime, both cursors are 0, runnerPositions is
\* empty and every runner's ScoringState is empty.
C25_LoadedState ==
    (lastOp[1] = "loadData" /\ loadOutcome.result = "resolved") =>
        /\ ~isPlaying
        /\ scheduled = {}
        /\ currentTime = startTime
        /\ currentIndex = 0
        /\ currentEventIndex = 0
        /\ runnerPositions = EmptyMap
        /\ \A r \in RunnerIds(runners) : scoringState[r] = EmptyState

\* C26: toggle inverts the playback state and returns the new one: Playing
\* becomes Paused and false is returned; Paused becomes Playing and true is
\* returned, at every currentTime of a race that lasts, endTime included.
C26_ToggleInverts ==
    [][(pc = "idle" /\ lastOp'[1] = "toggle" /\ startTime < endTime) =>
          /\ isPlaying' = ~isPlaying
          /\ toggleResult(engine) = ~isPlaying]_vars

\* q is a fraction in [0, 1]
InUnit(q) == 0 <= q[1] /\ q[1] <= q[2]

\* C27: getProgress() is in [0, 1] in every state: (currentTime - startTime) /
\* (endTime - startTime), and 0 when startTime = endTime; and so is the
\* progress every onTimeChange gets.
C27_ProgressInUnit ==
    /\ InUnit(getProgress(currentTime))
    /\ getProgress(currentTime) =
          IF startTime = endTime THEN Ratio(0, 1)
          ELSE Ratio(currentTime - startTime, endTime - startTime)
    /\ \A c \in TimeChanges : InUnit(calls[c].progress)

\* ---- updates and cursors
\* the last call from outside ran a tick that found the engine Playing
TickRan == \/ lastOp[1] = "tick"
           \/ lastOp[1] \in {"play", "toggle"} /\ calls # <<>>

\* C28: scores are recomputed for all runners on every update.  Every tick
\* and every seek fires onScoreUpdate exactly once, with one snapshot per
\* runner in runner-list order, computed at the resulting currentTime,
\* whether or not an event was crossed.
C28_ScoresEveryUpdate ==
    /\ (TickRan /\ pc \in {"onUpdate", "onTimeChange", "idle"}) => Cardinality(ScoreCalls) = 1
    /\ (TickRan /\ pc \in {"onEvent", "onScoreUpdate"}) => ScoreCalls = {}
    /\ IsSeek(lastOp) => Cardinality(ScoreCalls) = 1
    /\ \A c \in ScoreCalls :
          /\ DOMAIN calls[c].scores = DOMAIN runners
          /\ \A i \in DOMAIN runners :
                /\ calls[c].scores[i].runner = runners[i]
                /\ calls[c].scores[i] = Score(runners[i], currentTime)

\* a tick that crossed no event, with a runner's elapsed time running
C28_Witness ==
    /\ lastOp[1] = "tick"
    /\ pc = "idle"
    /\ EventCalls = {}
    /\ currentTime < endTime
    /\ \E c \in ScoreCalls, i \in DOMAIN runners :
          /\ calls[c].scores[i].elapsedTime[1] = "num"
          /\ calls[c].scores[i].elapsedTime[2] >= 1
          /\ calls[c].scores[i].stages >= 1

\* C29: the cursor invariant.  After every tick (whatever the multiplier in
\* force) and every seek, the frames below
\* currentIndex have t <= currentTime and the frame at currentIndex, if any,
\* has t > currentTime; likewise the events and currentEventIndex; and both
\* cursors lie between 0 and the length of their sequence.
C29_CursorInvariant ==
    updated =>
        /\ currentIndex \in 0..Len(positions)
        /\ currentEventIndex \in 0..Len(events)
        /\ \A i \in DOMAIN positions : i <= currentIndex => positions[i].t <= currentTime
        /\ currentIndex < Len(positions) => positions[currentIndex + 1].t > currentTime
        /\ \A i \in DOMAIN events : i <= currentEventIndex => events[i].t <= currentTime
        /\ currentEventIndex < Len(events) => events[currentEventIndex + 1].t > currentTime

\* the state a rebuild from index 0 up to currentTime produces
FramesUpTo == {i \in DOMAIN positions : positions[i].t <= currentTime}
EventsUpTo == {i \in DOMAIN events : events[i].t <= currentTime}

\* the last sample of runner r in the frames up to currentTime
LastSample(r) ==
    LET seen == UNION {{<<i, j>> : j \in {k \in DOMAIN positions[i].p : positions[i].p[k].r = r}} :
                          i \in FramesUpTo}
        last == CHOOSE ij \in seen :
                    \A other \in seen :
                        other[1] < ij[1] \/ (other[1] = ij[1] /\ other[2] <= ij[2])
        pos == positions[last[1]].p[last[2]]
    IN [r |-> r, lat |-> pos.lat, lon |-> pos.lon, timestamp |-> positions[last[1]].t]

Rebuilt ==
    /\ currentIndex = Cardinality(FramesUpTo)
    /\ currentEventIndex = Cardinality(EventsUpTo)
    /\ DOMAIN runnerPositions =
          {r \in HistoryKeys : \E i \in FramesUpTo : \E j \in DOMAIN positions[i].p :
                                   positions[i].p[j].r = r}
    /\ \A r \in DOMAIN runnerPositions : runnerPositions[r] = LastSample(r)
    /\ DOMAIN scoringState = RunnerIds(runners)
    /\ \A r \in RunnerIds(runners) :
          LET mine(type) == {i \in EventsUpTo : events[i].r = r /\ events[i].type = type}
          IN /\ scoringState[r].hasStarted <=> mine("exit_start") # {}
             /\ scoringState[r].hasFinished <=> mine("enter_finish") # {}
             /\ scoringState[r].stagesEntered = {events[i].stage : i \in mine("enter_stage")}
             /\ scoringState[r].stagesExited = {events[i].stage : i \in mine("exit_stage")}

\* C30: cursor monotonicity.  No step other than a seek or a load lowers
\* currentIndex or currentEventIndex; and after every seek, forward or
\* backward, the cursors, runnerPositions and ScoringState are those reached
\* from the initial values by advancing from index 0 up to the seek target.
C30_CursorMonotone ==
    /\ [][lastOp'[1] \notin {"seekToTime", "seekToPercent", "loadData"} =>
             /\ currentIndex' >= currentIndex
             /\ currentEventIndex' >= currentEventIndex]_vars
    /\ [](IsSeek(lastOp) => Rebuilt)

\* a seek back to a time some events and frames lie before and some after
C30_Witness ==
    /\ lastOp[1] = "seekToPercent"
    /\ jump = "back"
    /\ currentIndex >= 1
    /\ currentIndex < Len(positions)
    /\ currentEventIndex >= 2
    /\ currentEventIndex < Len(events)
    /\ \E r \in DOMAIN scoringState : ~scoringState[r].hasStarted

\* ---- ScoringState and the score snapshots
\* the timeline's events of runner r and one type with t <= currentTime
EventsSoFar(r, type) ==
    {i \in DOMAIN events : events[i].r = r /\ events[i].type = type /\ events[i].t <= currentTime}

\* C31: ScoringState is a projection of the events at or before the clock.
\* After every tick (whatever the multiplier in force) and every seek, for
\* every runner of the runner list, hasStarted holds iff the timeline has an
\* exit_start of the runner with t <= currentTime, hasFinished iff it has an
\* enter_finish with t <= currentTime, and stagesEntered / stagesExited are
\* the stage numbers of its enter_stage / exit_stage events with
\* t <= currentTime.
C31_ScoringProjection ==
    (updated /\ pc = "idle") =>
        /\ DOMAIN scoringState = RunnerIds(runners)
        /\ \A r \in RunnerIds(runners) :
              /\ scoringState[r].hasStarted <=> EventsSoFar(r, "exit_start") # {}
              /\ scoringState[r].hasFinished <=> EventsSoFar(r, "enter_finish") # {}
              /\ scoringState[r].stagesEntered =
                    {events[i].stage : i \in EventsSoFar(r, "enter_stage")}
              /\ scoringState[r].stagesExited =
                    {events[i].stage : i \in EventsSoFar(r, "exit_stage")}

\* C38: the two views of progress agree.  After every tick (whatever the
\* multiplier in force) and every seek, for every runner that has a scoring
\* record, ScoringState.hasStarted is the truth value of the snapshot's
\* hasStarted, ScoringState.hasFinished that of the snapshot's hasFinished,
\* and the snapshot's completed-stage count is at most the size of
\* ScoringState.stagesExited.
C38_ViewsAgree ==
    (updated /\ pc = "idle") =>
        \A i \in DOMAIN runners :
            HasRecord(runners[i]) =>
                LET score == getScores(currentTime)[i]
                    state == scoringState[runners[i]]
                IN /\ state.hasStarted <=> TruthyVal(score.hasStarted)
                   /\ state.hasFinished <=> TruthyVal(score.hasFinished)
                   /\ score.stages <= Cardinality(state.stagesExited)


\* ---- pause, seeks from callbacks
PauseStep == pc = "idle" /\ lastOp'[1] = "pause"

\* the host runs a frame callback that finds the engine Paused
StaleTickStep == pc = "idle" /\ ~isPlaying /\ lastOp'[1] = "tick"

\* C32: ticks only act while Playing.  pause() leaves the engine Paused with
\* the frame it had requested cancelled, and changes neither currentTime, the
\* cursors, runnerPositions, scoringState nor the multiplier, and fires no
\* callback; a frame callback that runs while the engine is Paused changes
\* none of these either and fires no callback; and while the engine is
\* Paused no call other than play, toggle, a seek or a load changes
\* currentTime.
C32_TicksOnlyWhilePlaying ==
    /\ [][PauseStep =>
             /\ ~isPlaying'
             /\ animationFrameId' = NULL
             /\ scheduled' = scheduled \ {animationFrameId}
             /\ UNCHANGED <<currentTime, currentIndex, currentEventIndex, runnerPositions,
                            scoringState, playbackSpeed>>
             /\ calls' = <<>>
             /\ pc' = "idle"]_vars
    /\ [][StaleTickStep =>
             /\ UNCHANGED <<currentTime, currentIndex, currentEventIndex, runnerPositions,
                            scoringState, isPlaying, playbackSpeed, animationFrameId>>
             /\ calls' = <<>>
             /\ pc' = "idle"]_vars
    /\ [][(pc = "idle" /\ ~isPlaying
              /\ lastOp'[1] \notin {"play", "toggle", "seekToTime", "seekToPercent", "loadData"})
             => currentTime' = currentTime]_vars

\* a frame callback has run in mid-race while the engine was Paused
C32_Witness ==
    /\ lastOp[1] = "tick"
    /\ pc = "idle"
    /\ calls = <<>>
    /\ ~isPlaying
    /\ startTime < currentTime
    /\ currentTime < endTime
    /\ currentEventIndex >= 1


\* C33: seeks are atomic with respect to observers.  Whenever a callback is
\* about to be invoked, both cursors, runnerPositions and ScoringState are
\* the ones a rebuild up to currentTime gives, and the event about to be
\* passed to onEvent has t <= currentTime -- also when an observer has called
\* seekToTime from a callback of the tick in flight.
C33_SeekAtomic ==
    pc # "idle" =>
        /\ Rebuilt
        /\ pc = "onEvent" => Head(newEvents).t <= currentTime


\* ---- the end of playback
Ended == pc = "idle" /\ currentTime = endTime /\ ~isPlaying

\* C34: playback eventually ends.  With a multiplier above 0, every requested
\* frame run by the host after a positive wall-clock delta and no pause, seek
\* or load, a Playing engine eventually is Paused at currentTime = endTime;
\* there no frame is pending, no tick runs any more, and without a further
\* play() or toggle() the clock, the cursors, runnerPositions, scoringState
\* and the playing flag stay as they are.
C34_PlaybackEnds ==
    /\ isPlaying ~> Ended
    /\ [](Ended => scheduled = {})
    /\ [][(Ended /\ lastOp'[1] \notin {"play", "toggle"}) =>
             /\ lastOp'[1] # "tick"
             /\ UNCHANGED <<currentTime, currentIndex, currentEventIndex, runnerPositions,
                            scoringState, isPlaying, scheduled, animationFrameId, pc>>]_vars

\* playback at the highest multiplier has run to the end of a race that lasts
C34_Witness ==
    /\ Ended
    /\ lastOp[1] = "tick"
    /\ playbackSpeed = MaxSpeed
    /\ startTime < endTime
    /\ currentEventIndex >= 1
    /\ runEnds = 1


\* ---- event delivery
\* the events the clock has reached
Reached == SubSeq(events, 1, Cardinality(EventsUpTo))

\* C35: during forward playback with no seek each timeline event with
\* t <= currentTime is passed to onEvent exactly once, in timeline order
\* across the ticks, by the first tick that brings currentTime to the event's
\* time or past it and never earlier; events with t > endTime are never
\* passed.  Stated on the observer's log: once a tick has run, the events
\* logged followed by those the tick in flight still has to pass are the
\* timeline's events with t <= currentTime, in timeline order.
C35_EventDelivery ==
    /\ seekBase = NULL =>
          IF updated THEN delivered \o newEvents = Reached ELSE delivered = <<>>
    /\ \A i \in DOMAIN delivered :
          delivered[i].t <= currentTime /\ delivered[i].t <= endTime

\* events passed in two ticks or more, with events of the timeline still ahead
C35_Witness ==
    /\ seekBase = NULL
    /\ pc = "idle"
    /\ lastOp[1] = "tick"
    /\ EventCalls # {}
    /\ Len(delivered) > Cardinality(EventCalls)
    /\ Len(delivered) < Len(events)

\* C36: a seek never calls onEvent.  The events a seek crosses are applied to
\* ScoringState and are passed to onEvent neither by the seek nor by a later
\* tick; the ticks after a seek pass exactly the events after the seek target
\* that the clock has reached, those passed before a backward seek included.
C36_SeekSilent ==
    /\ IsSeek(lastOp) =>
          /\ EventCalls = {}
          /\ delivered = <<>>
          /\ newEvents = <<>>
          /\ seekBase = Cardinality(EventsUpTo)
          /\ Rebuilt
    /\ seekBase # NULL =>
          delivered \o newEvents = SubSeq(events, seekBase + 1, Cardinality(EventsUpTo))

\* after a backward seek that crossed events, a tick has passed an event again
C36_Witness ==
    /\ pc = "idle"
    /\ lastOp[1] = "tick"
    /\ seekBase # NULL
    /\ seekBase >= 1
    /\ \E i \in DOMAIN delivered : delivered[i] \in deliveredBefore


\* ---- the wall clock
\* C37: wall-clock time that passes while the engine is Paused is never added
\* to the race clock.  The tick that play() runs adds nothing to currentTime,
\* however long the engine was Paused, and counts the wall time from the
\* play() call on (play() while Playing changes nothing); every later tick adds (the wall time since the later of
\* the previous tick and that play()) times the multiplier, up to endTime;
\* and neither pause, setSpeed nor the passing of wall time moves the clock.
C37_PausedTimeNotCounted ==
    /\ [][(pc = "idle" /\ lastOp'[1] = "play") =>
             /\ currentTime' = currentTime
             /\ sinceLastTick' = IF isPlaying THEN sinceLastTick ELSE 0]_vars
    /\ [][(pc = "idle" /\ lastOp'[1] = "tick" /\ isPlaying) =>
             /\ \E delta \in 0..MaxDelta :
                   currentTime' = Min(endTime, currentTime + (sinceLastTick + delta) * playbackSpeed)
             /\ sinceLastTick' = 0]_vars
    /\ [][(pc = "idle" /\ lastOp'[1] \in {"pause", "setSpeed", "wait"}) =>
             currentTime' = currentTime]_vars

\* play() in mid-race, called when the wall clock had run on since the last tick
C37_Witness ==
    /\ lastOp[1] = "play"
    /\ lastOp[2] >= MaxDelta
    /\ pc = "idle"
    /\ isPlaying
    /\ playbackSpeed >= 1
    /\ startTime < currentTime
    /\ currentTime < endTime


\* ---- seeks and playback control
\* the time the last seek asked for, clamped
SeekTarget ==
    IF lastOp[1] = "seekToTime" THEN Clamp(lastOp[2]) ELSE Clamp(PercentTime(lastOp[2]))

\* C39: a seek leaves playback control unchanged.  seekToTime and
\* seekToPercent change neither the playing flag, the multiplier, the pending
\* frame nor lastTickTime; after a seek made while Playing the frame is still
\* pending and the tick it runs advances the clock from the seek target;
\* after a seek made while Paused the engine is Paused with no frame pending.
C39_SeekKeepsControl ==
    /\ [][(pc = "idle" /\ IsSeek(lastOp')) =>
             /\ UNCHANGED <<isPlaying, playbackSpeed, scheduled, animationFrameId, sinceLastTick>>
             /\ pc' = "idle"]_vars
    /\ [](IsSeek(lastOp) => /\ currentTime = SeekTarget
                            /\ isPlaying <=> scheduled # {})
    /\ [][(IsSeek(lastOp) /\ isPlaying /\ lastOp'[1] = "tick") =>
             \E delta \in 0..MaxWall :
                 currentTime' = Min(endTime, SeekTarget + delta * playbackSpeed)]_vars

\* a seek into the race made during playback at the highest multiplier
C39_Witness ==
    /\ lastOp[1] = "seekToTime"
    /\ isPlaying
    /\ scheduled # {}
    /\ playbackSpeed = MaxSpeed
    /\ currentTime = lastOp[2]
    /\ startTime < currentTime
    /\ currentTime < endTime
    /\ currentEventIndex >= 1


\* ---- the map's trails
\* the last n elements of a sequence
LastN(seq, n) == IF Len(seq) <= n THEN seq ELSE SubSeq(seq, Len(seq) - n + 1, Len(seq))

\* C40: the map's trail bound.  After any sequence of updatePositions,
\* setSelectedRunners, clearTrails and reset calls, every stored trail has at
\* most maxTrailLength points and is the most recent maxTrailLength of the
\* points the runner's trail was given since the trails were last cleared,
\* in the order given: the point dropped is the oldest.  The runner's
\* polyline shows the stored trail.
C40_TrailBound ==
    /\ DOMAIN trailFed = DOMAIN trailPoints
    /\ \A r \in DOMAIN trailPoints :
          /\ Len(trailPoints[r]) <= maxTrailLength
          /\ trailPoints[r] = LastN(trailFed[r], maxTrailLength)
          /\ r \in DOMAIN trails
          /\ trails[r].points = trailPoints[r]

\* a trail that has dropped points, of a runner hidden since
C40_Witness ==
    /\ maxTrailLength = MaxTrail
    /\ \E r \in DOMAIN trailPoints :
          /\ Len(trailFed[r]) > maxTrailLength
          /\ trailPoints[r][1] # trailPoints[r][2]
          /\ r \notin selectedRunners
          /\ ~trails[r].shown


=============================================================================
